---- MODULE Spec2Model ----
(***************************************************************************)
(* A model of the core of cuda-gdb: the notification channel               *)
(* (cuda-notifications.c), the device state mirror (cuda-state.c) and the  *)
(* event processor (cuda-events.c).                                        *)
(*                                                                         *)
(* The notification channel is shared by two threads, the debug-API        *)
(* callback thread ("cb") and the main debugger thread ("main").  An       *)
(* operation that takes the notification mutex is modelled as two steps:   *)
(* acquire_lock, then the whole critical section together with             *)
(* release_lock.  Critical sections are therefore atomic with respect to   *)
(* each other, as the mutex makes them.  cuda_notification_reset and       *)
(* cuda_notification_consume_pending take no lock: their stores are        *)
(* separate steps that interleave with the critical sections of the other  *)
(* thread, and, the stores of reset being independent and unordered by any *)
(* synchronisation, they are taken in any order.                           *)
(***************************************************************************)
EXTENDS Integers, Sequences, FiniteSets, TLC

\* Number of host threads of the inferior; host thread ids are 1..NumThreads.
NumThreads == 2

\* Number of devices, of SMs per device, of warps per SM and of lanes per warp.
NumDevices == 2
NumSms     == 2
NumWarps   == 2
NumLanes   == 2

\* Number of context ids the debug API hands out; they are 1..NumContexts.
NumContexts == 2

VARIABLES
  cuda_notification_info, \* the notification record
  mutex,                  \* cuda_notification_info.mutex: "free", "cb" or "main"
  pc,                     \* the operation each thread is inside, or "idle"
  call,                   \* the arguments of the operation each thread is inside
  supports_tid,           \* cuda_platform_supports_tid ()
  last,                   \* history: the operation that completed last
  cuda_system_info,       \* the state mirror
  contexts,               \* dev->contexts: the context registry of each device
  kernels,                \* the kernel registry
  options,                \* the cuda options
  cuda_clock,             \* cuda_clock ()
  focus,                  \* the current focus of the debugger
  hw,                     \* what the debug API reports of each device
  api,                    \* history: the debug-API calls of the last operation
  exception_state_reads,  \* history: per device, the exception bitmaps read
                          \* from the debug API since its last device_resume
  attach_state,           \* cuda_api_get_attach_state ()
  current_context,        \* get_current_context (): a context id, 0 for NULL
  auto_breakpoints,       \* the breakpoints of cuda_create_auto_breakpoint
  error,                  \* history: the error () of the last event, if any
  sequence,               \* history: how far the last events are into a
                          \* create, push, pop, destroy of one context
  kernel_ready_sent,      \* history: the device and grid of the KERNEL_READY
                          \* events processed
  modules,                \* context->modules: the module list of each context
  calls,                  \* history: what the last event or drain made the
                          \* handlers call, in order
  queue,                  \* the events of the debug API not yet consumed
  consumed,               \* history: the events consumed, in order
  produced,               \* history: the events the debug API produced
  running,                \* the virtual PC of the valid lane that runs each
                          \* thread of the kernels, 0 when no lane runs it
  rows                    \* the rows the last info command built

nvars == <<cuda_notification_info, mutex, pc, call, supports_tid, last>>

qvars == <<queue, consumed, produced>>

ivars == <<running, rows>>

evars == <<attach_state, current_context, auto_breakpoints, error, sequence,
           kernel_ready_sent, modules, calls, qvars, ivars>>

mvars == <<cuda_system_info, contexts, kernels, options, cuda_clock, focus,
           hw, api, exception_state_reads, evars>>

vars == <<nvars, mvars>>

(***************************************************************************)
(*                            Notifications                                *)
(***************************************************************************)

Tids == 1 .. NumThreads

ContextIds == 1 .. NumContexts

\* CUDBGEventCallbackData: the payload of a notification.
Payloads == [tid : 0 .. NumThreads, timeout : BOOLEAN]

\* The payload after memset (.., 0, ..).
NoData == [tid |-> 0, timeout |-> FALSE]

\* What cuda_notification_analyze is given: the thread that stopped, its wait
\* status and the trap_expected flag of the inferior thread.
WaitKinds == {"STOPPED", "EXITED"}
Signals   == {"TRAP", "INT"}
AnalyzeArgs == [tid : Tids, kind : WaitKinds, sig : Signals, trap_expected : BOOLEAN]

NoArgs == [none |-> TRUE]

\* The fields cuda_notification_reset stores to.
ResetFields == {"blocked", "pending_send", "sent", "received", "tid"}

NoOp == [op |-> "none", branch |-> "none", send |-> FALSE, signal |-> 0,
         data |-> NoData]

\* The record a completed operation leaves in the history variable.
Done(op, branch) == [NoOp EXCEPT !.op = op, !.branch = branch]

\* cuda_notification_initialize
cuda_notification_initialize ==
  [blocked |-> FALSE, pending_send |-> FALSE, aliased_event |-> FALSE,
   sent |-> FALSE, received |-> FALSE, tid |-> 0, pending_send_data |-> NoData]

\* The notification channel after cuda_notification_initialize, both threads
\* being outside any operation.
NotifStart ==
  /\ cuda_notification_info = cuda_notification_initialize
  /\ mutex = "free"
  /\ pc = [cb |-> "idle", main |-> "idle"]
  /\ call = [cb |-> NoData, main |-> NoArgs]
  /\ last = NoOp

\* cuda_notification_acquire_lock, as the first statement of operation op of
\* thread t called with arguments a.
cuda_notification_acquire_lock(t, op, a) ==
  /\ pc[t] = "idle"
  /\ mutex = "free"
  /\ mutex' = t
  /\ pc' = [pc EXCEPT ![t] = op]
  /\ call' = [call EXCEPT ![t] = a]
  /\ UNCHANGED <<cuda_notification_info, supports_tid, last, mvars>>

\* cuda_notification_release_lock, as the last statement of the operation
\* thread t is inside.
cuda_notification_release_lock(t) ==
  /\ mutex' = "free"
  /\ pc' = [pc EXCEPT ![t] = "idle"]
  /\ call' = [call EXCEPT ![t] = IF t = "cb" THEN NoData ELSE NoArgs]
  /\ UNCHANGED <<supports_tid, mvars>>

\* The thread cuda_notification_send signals, 0 when no signal is delivered.
\* ok is the set of host threads on which the kill system call succeeds.
\* The host thread named by the payload is tried first when the platform
\* supports it; otherwise, or when that fails, iterate_over_threads signals
\* the first thread of the thread list for which the call succeeds.
SendTarget(data, ok) ==
  IF supports_tid /\ data.tid # 0 /\ data.tid \in ok
    THEN data.tid
    ELSE IF ok # {} THEN CHOOSE t \in ok : \A u \in ok : t <= u ELSE 0

\* cuda_notification_send: the record after the send.
cuda_notification_send(info, data, ok) ==
  IF SendTarget(data, ok) # 0
    THEN [info EXCEPT !.tid = SendTarget(data, ok), !.sent = TRUE]
    ELSE info

\* The history record of an operation that called cuda_notification_send.
DoneSend(op, branch, data, ok) ==
  [Done(op, branch) EXCEPT !.send = TRUE, !.signal = SendTarget(data, ok),
                           !.data = data]

\* cuda_notification_block: the critical section.
cuda_notification_block ==
  /\ pc.main = "block" /\ mutex = "main"
  /\ cuda_notification_info' = [cuda_notification_info EXCEPT !.blocked = TRUE]
  /\ last' = Done("block", "none")
  /\ cuda_notification_release_lock("main")

\* cuda_notification_accept with the buffered payload sent but pending_send
\* left set.
cuda_notification_accept_keeps_pending ==
  /\ pc.main = "accept" /\ mutex = "main"
  /\ IF cuda_notification_info.pending_send
       THEN \E ok \in SUBSET Tids :
              /\ cuda_notification_info' =
                   cuda_notification_send(
                     [cuda_notification_info EXCEPT !.blocked = FALSE],
                     cuda_notification_info.pending_send_data, ok)
              /\ last' = DoneSend("accept", "pending",
                                  cuda_notification_info.pending_send_data, ok)
       ELSE /\ cuda_notification_info' =
                 [cuda_notification_info EXCEPT !.blocked = FALSE]
            /\ last' = Done("accept", "none")
  /\ cuda_notification_release_lock("main")

\* cuda_notification_accept: the critical section.
cuda_notification_accept ==
  /\ pc.main = "accept" /\ mutex = "main"
  /\ IF cuda_notification_info.pending_send
       THEN \E ok \in SUBSET Tids :
              /\ cuda_notification_info' =
                   [cuda_notification_send(
                      [cuda_notification_info EXCEPT !.blocked = FALSE],
                      cuda_notification_info.pending_send_data, ok)
                    EXCEPT !.pending_send = FALSE, !.pending_send_data = NoData]
              /\ last' = DoneSend("accept", "pending",
                                  cuda_notification_info.pending_send_data, ok)
       ELSE /\ cuda_notification_info' =
                 [cuda_notification_info EXCEPT !.blocked = FALSE]
            /\ last' = Done("accept", "none")
  /\ cuda_notification_release_lock("main")

\* NotifyBranch with a notification that was already received not treated as
\* sent: a new notification is sent over it instead of being aliased.
NotifyBranch_alias_unless_received(info, data) ==
  IF data.timeout
    THEN IF info.sent /\ ~info.received THEN "resend" ELSE "timeout"
    ELSE IF info.sent /\ ~info.received THEN "aliased"
    ELSE IF info.pending_send THEN "ignored"
    ELSE IF info.blocked THEN "pending"
    ELSE "send"

\* NotifyBranch with the timeout path resending whenever a notification was
\* sent, received or not.
NotifyBranch_resend_when_sent(info, data) ==
  IF data.timeout
    THEN IF info.sent THEN "resend" ELSE "timeout"
    ELSE IF info.sent THEN "aliased"
    ELSE IF info.pending_send THEN "ignored"
    ELSE IF info.blocked THEN "pending"
    ELSE "send"

\* NotifyBranch with blocked tested before pending_send: a notification
\* that arrives while one is buffered is buffered over it.
NotifyBranch_blocked_first(info, data) ==
  IF data.timeout
    THEN IF info.sent /\ ~info.received THEN "resend" ELSE "timeout"
    ELSE IF info.sent THEN "aliased"
    ELSE IF info.blocked THEN "pending"
    ELSE IF info.pending_send THEN "ignored"
    ELSE "send"

\* The branch cuda_notification_notify takes on payload data.
NotifyBranch(info, data) ==
  IF data.timeout
    THEN IF info.sent /\ ~info.received THEN "resend" ELSE "timeout"
    ELSE IF info.sent THEN "aliased"
    ELSE IF info.pending_send THEN "ignored"
    ELSE IF info.blocked THEN "pending"
    ELSE "send"

\* cuda_notification_notify: the critical section.
cuda_notification_notify ==
  /\ pc.cb = "notify" /\ mutex = "cb"
  /\ LET info == cuda_notification_info
         data == call.cb
         b    == NotifyBranch(info, data)
     IN  CASE b \in {"resend", "send"} ->
                \E ok \in SUBSET Tids :
                  /\ cuda_notification_info' = cuda_notification_send(info, data, ok)
                  /\ last' = DoneSend("notify", b, data, ok)
           [] b = "aliased" ->
                /\ cuda_notification_info' = [info EXCEPT !.aliased_event = TRUE]
                /\ last' = [Done("notify", b) EXCEPT !.data = data]
           [] b = "pending" ->
                /\ cuda_notification_info' =
                     [info EXCEPT !.pending_send = TRUE, !.pending_send_data = data]
                /\ last' = [Done("notify", b) EXCEPT !.data = data]
           [] OTHER ->
                /\ cuda_notification_info' = info
                /\ last' = [Done("notify", b) EXCEPT !.data = data]
  /\ cuda_notification_release_lock("cb")

\* cuda_notification_aliased_event: the critical section.
cuda_notification_aliased_event ==
  /\ pc.main = "aliased_event" /\ mutex = "main"
  /\ last' = Done("aliased_event", "none")
  /\ UNCHANGED cuda_notification_info
  /\ cuda_notification_release_lock("main")

\* cuda_notification_reset_aliased_event: the critical section.
cuda_notification_reset_aliased_event ==
  /\ pc.main = "reset_aliased_event" /\ mutex = "main"
  /\ cuda_notification_info' =
       [cuda_notification_info EXCEPT !.aliased_event = FALSE]
  /\ last' = Done("reset_aliased_event", "none")
  /\ cuda_notification_release_lock("main")

\* cuda_notification_pending: the critical section.
cuda_notification_pending ==
  /\ pc.main = "pending" /\ mutex = "main"
  /\ last' = Done("pending", "none")
  /\ UNCHANGED cuda_notification_info
  /\ cuda_notification_release_lock("main")

\* cuda_notification_received: the critical section.
cuda_notification_received ==
  /\ pc.main = "received" /\ mutex = "main"
  /\ last' = Done("received", "none")
  /\ UNCHANGED cuda_notification_info
  /\ cuda_notification_release_lock("main")

\* AnalyzeReceives without the test of trap_expected.
AnalyzeReceives_ignores_trap_expected(info, a) ==
  /\ info.sent
  /\ info.tid = a.tid
  /\ a.kind = "STOPPED"
  /\ a.sig = "TRAP"

\* The condition under which cuda_notification_analyze deems the notification
\* received.
AnalyzeReceives(info, a) ==
  /\ info.sent
  /\ info.tid = a.tid
  /\ a.kind = "STOPPED"
  /\ a.sig = "TRAP"
  /\ ~a.trap_expected

\* cuda_notification_analyze: the critical section.
cuda_notification_analyze ==
  /\ pc.main = "analyze" /\ mutex = "main"
  /\ IF AnalyzeReceives(cuda_notification_info, call.main)
       THEN /\ cuda_notification_info' =
                 [cuda_notification_info EXCEPT !.received = TRUE]
            /\ last' = Done("analyze", "received")
       ELSE /\ UNCHANGED cuda_notification_info
            /\ last' = Done("analyze", "none")
  /\ cuda_notification_release_lock("main")

\* cuda_notification_mark_consumed with the thread id left in the record.
cuda_notification_mark_consumed_keeps_tid ==
  /\ pc.main = "mark_consumed" /\ mutex = "main"
  /\ IF cuda_notification_info.received
       THEN /\ cuda_notification_info' =
                 [cuda_notification_info EXCEPT !.sent = FALSE, !.received = FALSE]
            /\ last' = Done("mark_consumed", "consumed")
       ELSE /\ UNCHANGED cuda_notification_info
            /\ last' = Done("mark_consumed", "none")
  /\ cuda_notification_release_lock("main")

\* cuda_notification_mark_consumed: the critical section.
cuda_notification_mark_consumed ==
  /\ pc.main = "mark_consumed" /\ mutex = "main"
  /\ IF cuda_notification_info.received
       THEN /\ cuda_notification_info' =
                 [cuda_notification_info
                  EXCEPT !.sent = FALSE, !.received = FALSE, !.tid = 0]
            /\ last' = Done("mark_consumed", "consumed")
       ELSE /\ UNCHANGED cuda_notification_info
            /\ last' = Done("mark_consumed", "none")
  /\ cuda_notification_release_lock("main")

\* cuda_notification_consume_pending is entered: it takes no lock.
cuda_notification_consume_pending_enter ==
  /\ pc.main = "idle"
  /\ pc' = [pc EXCEPT !.main = "consume_pending"]
  /\ UNCHANGED <<cuda_notification_info, mutex, call, supports_tid, last, mvars>>

\* cuda_notification_consume_pending: its one store.
cuda_notification_consume_pending ==
  /\ pc.main = "consume_pending"
  /\ cuda_notification_info' =
       [cuda_notification_info EXCEPT !.pending_send = FALSE]
  /\ pc' = [pc EXCEPT !.main = "idle"]
  /\ last' = Done("consume_pending", "none")
  /\ UNCHANGED <<mutex, call, supports_tid, mvars>>

\* cuda_notification_reset is entered: it takes no lock.  call.main holds the
\* fields it has still to store to.
cuda_notification_reset_enter ==
  /\ pc.main = "idle"
  /\ pc' = [pc EXCEPT !.main = "reset"]
  /\ call' = [call EXCEPT !.main = ResetFields]
  /\ UNCHANGED <<cuda_notification_info, mutex, supports_tid, last, mvars>>

\* The record after the store of cuda_notification_reset to field f.
ResetStore(info, f) ==
  IF f = "tid" THEN [info EXCEPT !.tid = 0] ELSE [info EXCEPT ![f] = FALSE]

\* cuda_notification_reset: one of its stores; it returns after the last.
cuda_notification_reset ==
  /\ pc.main = "reset"
  /\ \E f \in call.main :
       /\ cuda_notification_info' = ResetStore(cuda_notification_info, f)
       /\ IF call.main = {f}
            THEN /\ pc' = [pc EXCEPT !.main = "idle"]
                 /\ call' = [call EXCEPT !.main = NoArgs]
                 /\ last' = Done("reset", "none")
            ELSE /\ call' = [call EXCEPT !.main = call.main \ {f}]
                 /\ UNCHANGED <<pc, last>>
  /\ UNCHANGED <<mutex, supports_tid, mvars>>

\* The operations of the main thread that take the mutex, without arguments.
MainLockedOps == {"block", "accept", "aliased_event", "reset_aliased_event",
                  "pending", "received", "mark_consumed"}

NotifNext ==
  \/ \E p \in Payloads : cuda_notification_acquire_lock("cb", "notify", p)
  \/ cuda_notification_notify
  \/ \E op \in MainLockedOps : cuda_notification_acquire_lock("main", op, NoArgs)
  \/ \E a \in AnalyzeArgs : cuda_notification_acquire_lock("main", "analyze", a)
  \/ cuda_notification_block
  \/ cuda_notification_accept
  \/ cuda_notification_aliased_event
  \/ cuda_notification_reset_aliased_event
  \/ cuda_notification_pending
  \/ cuda_notification_received
  \/ cuda_notification_analyze
  \/ cuda_notification_mark_consumed
  \/ cuda_notification_consume_pending_enter
  \/ cuda_notification_consume_pending
  \/ cuda_notification_reset_enter
  \/ cuda_notification_reset

(***************************************************************************)
(*                          Device state mirror                            *)
(*                                                                         *)
(* cuda-state.c keeps, per device, SM, warp and lane, values read from the *)
(* debug API together with a present flag (<field>_p) per value.  The      *)
(* functions of cuda-state.c are modelled as operators on a machine record *)
(*   m = [sys, kernels, api, ret]                                          *)
(* where sys is cuda_system_info, kernels the kernel registry, api the     *)
(* debug-API calls the running operation has made so far and ret the value *)
(* the function called last returned.  What the debug API answers is the   *)
(* variable hw.  The session is a native one (cuda_remote is false) and    *)
(* the debugger is initialized (cuda_initialized is true).                 *)
(***************************************************************************)

Devs  == 0 .. NumDevices - 1
Sms   == 0 .. NumSms - 1
Warps == 0 .. NumWarps - 1
Lanes == 0 .. NumLanes - 1

\* const bool CACHED = true
CACHED == TRUE

\* (mask >> i) & 1
Bit(mask, i) == (mask \div (2 ^ i)) % 2 = 1

\* mask | (1 << i)
SetBit(mask, i) == IF Bit(mask, i) THEN mask ELSE mask + 2 ^ i

\* mask & ~(1 << i)
ClearBit(mask, i) == IF Bit(mask, i) THEN mask - 2 ^ i ELSE mask

\* The mask with bits 0 .. n-1 set.
AllBits(n) == 2 ^ n - 1

\* lane_state_t after memset (.., 0, ..)
lane_state_t ==
  [thread_idx_p |-> FALSE, pc_p |-> FALSE, exception_p |-> FALSE,
   virtual_pc_p |-> FALSE, timestamp_p |-> FALSE,
   thread_idx |-> 0, pc |-> 0, exception |-> "NONE", virtual_pc |-> 0,
   timestamp |-> 0]

\* warp_state_t after memset (.., 0, ..)
warp_state_t ==
  [valid_p |-> FALSE, broken_p |-> FALSE, block_idx_p |-> FALSE,
   kernel_p |-> FALSE, grid_id_p |-> FALSE, valid_lanes_mask_p |-> FALSE,
   active_lanes_mask_p |-> FALSE, timestamp_p |-> FALSE,
   valid |-> FALSE, broken |-> FALSE, block_idx |-> 0, kernel |-> 0,
   grid_id |-> 0, valid_lanes_mask |-> 0, active_lanes_mask |-> 0,
   timestamp |-> 0, ln |-> [l \in Lanes |-> lane_state_t]]

\* sm_state_t after memset (.., 0, ..)
sm_state_t ==
  [valid_warps_mask_p |-> FALSE, broken_warps_mask_p |-> FALSE,
   valid_warps_mask |-> 0, broken_warps_mask |-> 0,
   wp |-> [w \in Warps |-> warp_state_t]]

\* device_state_t after memset (.., 0, ..); the context registry of the device
\* is the variable contexts.
device_state_t ==
  [valid_p |-> FALSE, num_sms_p |-> FALSE, num_warps_p |-> FALSE,
   num_lanes_p |-> FALSE, num_registers_p |-> FALSE, dev_type_p |-> FALSE,
   sm_type_p |-> FALSE, filter_exception_state_p |-> FALSE,
   valid |-> FALSE, suspended |-> FALSE,
   num_sms |-> 0, num_warps |-> 0, num_lanes |-> 0, num_registers |-> 0,
   dev_type |-> "", sm_type |-> "",
   sm |-> [s \in Sms |-> sm_state_t]]

\* cuda_system_initialize: cuda_system_info is zeroed, then the loop over the
\* devices latches the number of devices.
cuda_system_initialize ==
  [num_devices_p |-> CACHED, num_devices |-> NumDevices,
   dev |-> [d \in Devs |-> device_state_t],
   suspended_devices_mask |-> 0]

\* contexts_new: a registry with no context and an empty stack per host
\* thread.
contexts_new == [list |-> {}, stacks |-> [t \in Tids |-> <<>>]]

\* What the debug API reports of a device with no warp running.
HwIdle ==
  [valid_warps   |-> [s \in Sms |-> 0],
   broken_warps  |-> [s \in Sms |-> 0],
   valid_lanes   |-> [s \in Sms |-> [w \in Warps |-> 0]],
   active_lanes  |-> [s \in Sms |-> [w \in Warps |-> 0]],
   grid_id       |-> [s \in Sms |-> [w \in Warps |-> 0]],
   block_idx     |-> [s \in Sms |-> [w \in Warps |-> 0]],
   thread_idx    |-> [s \in Sms |-> [w \in Warps |-> [l \in Lanes |-> 0]]],
   pc            |-> [s \in Sms |-> [w \in Warps |-> [l \in Lanes |-> 0]]],
   virtual_pc    |-> [s \in Sms |-> [w \in Warps |-> [l \in Lanes |-> 0]]],
   exception     |-> [s \in Sms |-> [w \in Warps |-> [l \in Lanes |-> "NONE"]]],
   exception_sms |-> 0]

\* A device stopped at a breakpoint hit by its last warp: the last warp of
\* the last SM is the only valid one and is broken, all its lanes are valid,
\* lane 0 is the active one and the other lanes have diverged to another pc.
HwBreakpoint ==
  LET s0 == NumSms - 1
      w0 == NumWarps - 1
      at(s, w) == s = s0 /\ w = w0
  IN [valid_warps   |-> [s \in Sms |-> IF s = s0 THEN 2 ^ w0 ELSE 0],
      broken_warps  |-> [s \in Sms |-> IF s = s0 THEN 2 ^ w0 ELSE 0],
      valid_lanes   |-> [s \in Sms |-> [w \in Warps |->
                           IF at(s, w) THEN AllBits(NumLanes) ELSE 0]],
      active_lanes  |-> [s \in Sms |-> [w \in Warps |->
                           IF at(s, w) THEN 1 ELSE 0]],
      grid_id       |-> [s \in Sms |-> [w \in Warps |->
                           IF at(s, w) THEN 1 ELSE 0]],
      block_idx     |-> [s \in Sms |-> [w \in Warps |->
                           IF at(s, w) THEN 1 ELSE 0]],
      thread_idx    |-> [s \in Sms |-> [w \in Warps |-> [l \in Lanes |->
                           IF at(s, w) THEN l ELSE 0]]],
      pc            |-> [s \in Sms |-> [w \in Warps |-> [l \in Lanes |->
                           IF at(s, w) THEN (IF l = 0 THEN 1 ELSE 2) ELSE 0]]],
      virtual_pc    |-> [s \in Sms |-> [w \in Warps |-> [l \in Lanes |->
                           IF at(s, w) THEN (IF l = 0 THEN 1 ELSE 2) ELSE 0]]],
      exception     |-> [s \in Sms |-> [w \in Warps |-> [l \in Lanes |->
                           "NONE"]]],
      exception_sms |-> 0]

\* A device stopped by an exception: every warp of every SM is valid with all
\* its lanes valid and active, no warp is broken, the warps of SM s run grid
\* s + 1, and lane 0 of warp 0 of SM 0 has raised an exception.
HwException ==
  [valid_warps   |-> [s \in Sms |-> AllBits(NumWarps)],
   broken_warps  |-> [s \in Sms |-> 0],
   valid_lanes   |-> [s \in Sms |-> [w \in Warps |-> AllBits(NumLanes)]],
   active_lanes  |-> [s \in Sms |-> [w \in Warps |-> AllBits(NumLanes)]],
   grid_id       |-> [s \in Sms |-> [w \in Warps |-> s + 1]],
   block_idx     |-> [s \in Sms |-> [w \in Warps |-> w]],
   thread_idx    |-> [s \in Sms |-> [w \in Warps |-> [l \in Lanes |-> l]]],
   pc            |-> [s \in Sms |-> [w \in Warps |-> [l \in Lanes |-> 3]]],
   virtual_pc    |-> [s \in Sms |-> [w \in Warps |-> [l \in Lanes |-> 3]]],
   exception     |-> [s \in Sms |-> [w \in Warps |-> [l \in Lanes |->
                        IF s = 0 /\ w = 0 /\ l = 0
                        THEN "LANE_ILLEGAL_ADDRESS" ELSE "NONE"]]],
   exception_sms |-> 1]

\* The device states the debug API reports in this model, by name.
DeviceStates == {"idle", "breakpoint", "exception"}

\* A device whose last warp has exited: no warp is valid.  What
\* read_active_lanes answers for a warp that is not valid is not fixed by the
\* debug API; here it still answers, for the last warp of the last SM, the
\* lane that was active when the warp exited.
HwExited ==
  [HwIdle EXCEPT !.active_lanes[NumSms - 1][NumWarps - 1] = 1]

\* A device with every warp of its last SM stopped at a breakpoint: the warps
\* are valid and broken, with lane 0 active, and run grid 1.
HwBreakpoints ==
  LET s0 == NumSms - 1
  IN [HwBreakpoint EXCEPT
        !.valid_warps[s0]  = AllBits(NumWarps),
        !.broken_warps[s0] = AllBits(NumWarps),
        !.valid_lanes[s0]  = [w \in Warps |-> AllBits(NumLanes)],
        !.active_lanes[s0] = [w \in Warps |-> 1],
        !.grid_id[s0]      = [w \in Warps |-> 1],
        !.block_idx[s0]    = [w \in Warps |-> w]]

\* What the debug API reports of device d: hw holds the name of its state.
Hw(d) ==
  CASE hw[d] = "idle"        -> HwIdle
    [] hw[d] = "breakpoint"  -> HwBreakpoint
    [] hw[d] = "breakpoints" -> HwBreakpoints
    [] hw[d] = "exception"   -> HwException
    [] hw[d] = "exited"      -> HwExited

\* The physical coordinates of lane 0 of warp 0 of SM 0 of device 0.
FirstLane == [dev |-> 0, sm |-> 0, wp |-> 0, ln |-> 0]

\* The machine record an operation starts from.
Machine == [sys |-> cuda_system_info, kernels |-> kernels, api |-> <<>>,
            ret |-> 0]

\* A debug-API call, as recorded in api.
Api(name, at) == [call |-> name, at |-> at]

\* The machine after debug-API call c.
ApiCall(m, c) == [m EXCEPT !.api = Append(@, c)]

\* The machine with v as the value returned.
Return(m, v) == [m EXCEPT !.ret = v]

\* device_get_num_sms
device_get_num_sms(m, d) ==
  IF m.sys.dev[d].num_sms_p THEN Return(m, m.sys.dev[d].num_sms)
  ELSE Return([ApiCall(m, Api("get_num_sms", <<d>>)) EXCEPT
                 !.sys.dev[d].num_sms = NumSms,
                 !.sys.dev[d].num_sms_p = CACHED], NumSms)

\* device_get_num_warps
device_get_num_warps(m, d) ==
  IF m.sys.dev[d].num_warps_p THEN Return(m, m.sys.dev[d].num_warps)
  ELSE Return([ApiCall(m, Api("get_num_warps", <<d>>)) EXCEPT
                 !.sys.dev[d].num_warps = NumWarps,
                 !.sys.dev[d].num_warps_p = CACHED], NumWarps)

\* device_get_num_lanes
device_get_num_lanes(m, d) ==
  IF m.sys.dev[d].num_lanes_p THEN Return(m, m.sys.dev[d].num_lanes)
  ELSE Return([ApiCall(m, Api("get_num_lanes", <<d>>)) EXCEPT
                 !.sys.dev[d].num_lanes = NumLanes,
                 !.sys.dev[d].num_lanes_p = CACHED], NumLanes)

\* gdb_assert (sm_id < device_get_num_sms (dev_id)), which every function
\* taking an SM begins with.  The coordinates of the model are in range; the
\* assertion is kept for its call of device_get_num_sms.
AssertSm(m, d) == device_get_num_sms(m, d)

\* The assertions every function taking a warp begins with.
AssertWp(m, d) == device_get_num_warps(AssertSm(m, d), d)

\* The assertions every function taking a lane begins with.
AssertLn(m, d) == device_get_num_lanes(AssertWp(m, d), d)

\* contexts_is_any_context_present on the registry of device d.
device_is_any_context_present(d) == contexts[d].list # {}

\* lane_invalidate without the store to exception_p.
lane_invalidate_keeps_exception(m, d, s, w, l) ==
  [AssertLn(m, d) EXCEPT
     !.sys.dev[d].sm[s].wp[w].ln[l].pc_p         = FALSE,
     !.sys.dev[d].sm[s].wp[w].ln[l].virtual_pc_p = FALSE,
     !.sys.dev[d].sm[s].wp[w].ln[l].thread_idx_p = FALSE,
     !.sys.dev[d].sm[s].wp[w].ln[l].timestamp_p  = FALSE]

\* lane_invalidate
lane_invalidate(m, d, s, w, l) ==
  [AssertLn(m, d) EXCEPT
     !.sys.dev[d].sm[s].wp[w].ln[l].pc_p         = FALSE,
     !.sys.dev[d].sm[s].wp[w].ln[l].virtual_pc_p = FALSE,
     !.sys.dev[d].sm[s].wp[w].ln[l].thread_idx_p = FALSE,
     !.sys.dev[d].sm[s].wp[w].ln[l].exception_p  = FALSE,
     !.sys.dev[d].sm[s].wp[w].ln[l].timestamp_p  = FALSE]

\* The loop of warp_invalidate over the lanes, from lane l on.
RECURSIVE warp_invalidate_lanes(_, _, _, _, _)
warp_invalidate_lanes(m, d, s, w, l) ==
  LET Test(c) ==
        IF l < c.ret
        THEN warp_invalidate_lanes(lane_invalidate(c, d, s, w, l),
                                   d, s, w, l + 1)
        ELSE c
  IN Test(device_get_num_lanes(m, d))

\* warp_invalidate
warp_invalidate(m, d, s, w) ==
  [warp_invalidate_lanes(AssertWp(m, d), d, s, w, 0) EXCEPT
     !.sys.dev[d].sm[s].valid_warps_mask_p        = FALSE,
     !.sys.dev[d].sm[s].broken_warps_mask_p       = FALSE,
     !.sys.dev[d].sm[s].wp[w].valid_p             = FALSE,
     !.sys.dev[d].sm[s].wp[w].broken_p            = FALSE,
     !.sys.dev[d].sm[s].wp[w].block_idx_p         = FALSE,
     !.sys.dev[d].sm[s].wp[w].kernel_p            = FALSE,
     !.sys.dev[d].sm[s].wp[w].grid_id_p           = FALSE,
     !.sys.dev[d].sm[s].wp[w].valid_lanes_mask_p  = FALSE,
     !.sys.dev[d].sm[s].wp[w].active_lanes_mask_p = FALSE,
     !.sys.dev[d].sm[s].wp[w].timestamp_p         = FALSE]

\* The loop of sm_invalidate over the warps, from warp w on.
RECURSIVE sm_invalidate_warps(_, _, _, _)
sm_invalidate_warps(m, d, s, w) ==
  LET Test(c) ==
        IF w < c.ret
        THEN sm_invalidate_warps(warp_invalidate(c, d, s, w), d, s, w + 1)
        ELSE c
  IN Test(device_get_num_warps(m, d))

\* sm_invalidate
sm_invalidate(m, d, s, recursion) ==
  LET Warps_(a) == IF recursion = "RECURSIVE"
                   THEN sm_invalidate_warps(a, d, s, 0) ELSE a
  IN [Warps_(AssertSm(m, d)) EXCEPT
        !.sys.dev[d].sm[s].valid_warps_mask_p  = FALSE,
        !.sys.dev[d].sm[s].broken_warps_mask_p = FALSE]

\* The loop of device_invalidate over the SMs invalidating no SM.
device_invalidate_sms_skips(m, d, s) == m

\* The loop of device_invalidate over the SMs, from SM s on.
RECURSIVE device_invalidate_sms(_, _, _)
device_invalidate_sms(m, d, s) ==
  LET Test(c) ==
        IF s < c.ret
        THEN device_invalidate_sms(sm_invalidate(c, d, s, "RECURSIVE"),
                                   d, s + 1)
        ELSE c
  IN Test(device_get_num_sms(m, d))

\* device_invalidate_kernels: kernel_invalidate on every kernel of the
\* registry.  It drops what a kernel record caches of the debug API and
\* leaves the record registered; the registry is modelled by the identity of
\* its records only.
device_invalidate_kernels(m, d) == m

\* device_invalidate
device_invalidate(m, d) ==
  [device_invalidate_kernels(device_invalidate_sms(m, d, 0), d) EXCEPT
     !.sys.dev[d].valid_p                  = FALSE,
     !.sys.dev[d].filter_exception_state_p = FALSE]

\* sm_get_valid_warps_mask
sm_get_valid_warps_mask(m, d, s) ==
  LET Get(a) ==
        IF a.sys.dev[d].sm[s].valid_warps_mask_p
        THEN Return(a, a.sys.dev[d].sm[s].valid_warps_mask)
        ELSE Return([ApiCall(a, Api("read_valid_warps", <<d, s>>)) EXCEPT
                       !.sys.dev[d].sm[s].valid_warps_mask =
                          Hw(d).valid_warps[s],
                       !.sys.dev[d].sm[s].valid_warps_mask_p = CACHED],
                    Hw(d).valid_warps[s])
  IN Get(AssertSm(m, d))

\* sm_get_broken_warps_mask
sm_get_broken_warps_mask(m, d, s) ==
  LET Get(a) ==
        IF a.sys.dev[d].sm[s].broken_warps_mask_p
        THEN Return(a, a.sys.dev[d].sm[s].broken_warps_mask)
        ELSE Return([ApiCall(a, Api("read_broken_warps", <<d, s>>)) EXCEPT
                       !.sys.dev[d].sm[s].broken_warps_mask =
                          Hw(d).broken_warps[s],
                       !.sys.dev[d].sm[s].broken_warps_mask_p = CACHED],
                    Hw(d).broken_warps[s])
  IN Get(AssertSm(m, d))

\* warp_is_valid
warp_is_valid(m, d, s, w) ==
  LET Test(r) == Return(r, Bit(r.ret, w))
  IN Test(sm_get_valid_warps_mask(AssertWp(m, d), d, s))

\* warp_is_broken
warp_is_broken(m, d, s, w) ==
  LET Test(r) == Return(r, Bit(r.ret, w))
  IN Test(sm_get_broken_warps_mask(AssertWp(m, d), d, s))

\* The inner loop of device_is_valid, over the warps of SM s from warp w on.
RECURSIVE device_is_valid_warps(_, _, _, _)
device_is_valid_warps(m, d, s, w) ==
  LET Mark(v) == IF v.ret THEN [v EXCEPT !.sys.dev[d].valid = TRUE] ELSE v
      Test(c) ==
        IF w < c.ret /\ ~c.sys.dev[d].valid
        THEN device_is_valid_warps(Mark(warp_is_valid(c, d, s, w)),
                                   d, s, w + 1)
        ELSE c
  IN Test(device_get_num_warps(m, d))

\* The outer loop of device_is_valid, over the SMs from SM s on.
RECURSIVE device_is_valid_sms(_, _, _)
device_is_valid_sms(m, d, s) ==
  LET Test(c) ==
        IF s < c.ret /\ ~c.sys.dev[d].valid
        THEN device_is_valid_sms(device_is_valid_warps(c, d, s, 0), d, s + 1)
        ELSE c
  IN Test(device_get_num_sms(m, d))

\* device_is_valid
device_is_valid(m, d) ==
  LET Start(m1) ==
        IF ~device_is_any_context_present(d) THEN Return(m1, FALSE)
        ELSE LET Latch(m2) == Return([m2 EXCEPT !.sys.dev[d].valid_p = CACHED],
                                     m2.sys.dev[d].valid)
             IN Latch(device_is_valid_sms(m1, d, 0))
  IN IF m.sys.dev[d].valid_p THEN Return(m, m.sys.dev[d].valid)
     ELSE Start([m EXCEPT !.sys.dev[d].valid = FALSE])

\* device_resume calling resume_device whether or not the device is
\* suspended.
device_resume_always_resumes(m, d) ==
  [ApiCall(device_invalidate(m, d), Api("resume_device", <<d>>)) EXCEPT
     !.sys.dev[d].suspended = FALSE,
     !.sys.suspended_devices_mask = ClearBit(@, d)]

\* device_resume leaving the bit of the device in the suspended-devices mask.
device_resume_keeps_mask(m, d) ==
  LET Resume(a) ==
        IF ~a.sys.dev[d].suspended THEN a
        ELSE [ApiCall(a, Api("resume_device", <<d>>)) EXCEPT
                !.sys.dev[d].suspended = FALSE]
  IN Resume(device_invalidate(m, d))

\* device_resume
device_resume(m, d) ==
  LET Resume(a) ==
        IF ~a.sys.dev[d].suspended THEN a
        ELSE [ApiCall(a, Api("resume_device", <<d>>)) EXCEPT
                !.sys.dev[d].suspended = FALSE,
                !.sys.suspended_devices_mask = ClearBit(@, d)]
  IN Resume(device_invalidate(m, d))

\* device_suspend storing the bit of the device as the whole mask.
device_suspend_overwrites_mask(m, d) ==
  IF ~device_is_any_context_present(d) THEN m
  ELSE [ApiCall(m, Api("suspend_device", <<d>>)) EXCEPT
          !.sys.dev[d].suspended = TRUE,
          !.sys.suspended_devices_mask = 2 ^ d]

\* device_suspend
device_suspend(m, d) ==
  IF ~device_is_any_context_present(d) THEN m
  ELSE [ApiCall(m, Api("suspend_device", <<d>>)) EXCEPT
          !.sys.dev[d].suspended = TRUE,
          !.sys.suspended_devices_mask = SetBit(@, d)]

\* lane_set_exception_none
lane_set_exception_none(m, d, s, w, l) ==
  [AssertLn(m, d) EXCEPT
     !.sys.dev[d].sm[s].wp[w].ln[l].exception   = "NONE",
     !.sys.dev[d].sm[s].wp[w].ln[l].exception_p = TRUE]

\* The inner loop of sm_set_exception_none, over the lanes of warp w.
RECURSIVE sm_set_exception_none_lanes(_, _, _, _, _)
sm_set_exception_none_lanes(m, d, s, w, l) ==
  LET Test(c) ==
        IF l < c.ret
        THEN sm_set_exception_none_lanes(
               lane_set_exception_none(c, d, s, w, l), d, s, w, l + 1)
        ELSE c
  IN Test(device_get_num_lanes(m, d))

\* The outer loop of sm_set_exception_none, over the warps of SM s.
RECURSIVE sm_set_exception_none_warps(_, _, _, _)
sm_set_exception_none_warps(m, d, s, w) ==
  LET Test(c) ==
        IF w < c.ret
        THEN sm_set_exception_none_warps(
               sm_set_exception_none_lanes(c, d, s, w, 0), d, s, w + 1)
        ELSE c
  IN Test(device_get_num_warps(m, d))

\* sm_set_exception_none
sm_set_exception_none(m, d, s) ==
  sm_set_exception_none_warps(AssertSm(m, d), d, s, 0)

\* The loop of device_filter_exception_state over the SMs, sm_mask being the
\* bitmap read from the debug API.
RECURSIVE device_filter_exception_state_sms(_, _, _, _)
device_filter_exception_state_sms(m, d, sm_mask, s) ==
  LET Filter(c) == IF ~Bit(sm_mask, s) THEN sm_set_exception_none(c, d, s)
                   ELSE c
      Test(c) ==
        IF s < c.ret
        THEN device_filter_exception_state_sms(Filter(c), d, sm_mask, s + 1)
        ELSE c
  IN Test(device_get_num_sms(m, d))

\* device_filter_exception_state without the store to
\* filter_exception_state_p.
device_filter_exception_state_no_latch(m, d) ==
  IF ~device_is_any_context_present(d) THEN m
  ELSE IF m.sys.dev[d].filter_exception_state_p THEN m
  ELSE device_filter_exception_state_sms(
         ApiCall(m, Api("read_device_exception_state", <<d>>)),
         d, Hw(d).exception_sms, 0)

\* device_filter_exception_state
device_filter_exception_state(m, d) ==
  IF ~device_is_any_context_present(d) THEN m
  ELSE IF m.sys.dev[d].filter_exception_state_p THEN m
  ELSE [device_filter_exception_state_sms(
          ApiCall(m, Api("read_device_exception_state", <<d>>)),
          d, Hw(d).exception_sms, 0)
        EXCEPT !.sys.dev[d].filter_exception_state_p = TRUE]

\* warp_get_grid_id taking a grid id of 0 for a grid id not yet read.
warp_get_grid_id_tests_value(m, d, s, w) ==
  LET Get(a) ==
        IF a.sys.dev[d].sm[s].wp[w].grid_id # 0
        THEN Return(a, a.sys.dev[d].sm[s].wp[w].grid_id)
        ELSE Return([ApiCall(a, Api("read_grid_id", <<d, s, w>>)) EXCEPT
                       !.sys.dev[d].sm[s].wp[w].grid_id = Hw(d).grid_id[s][w],
                       !.sys.dev[d].sm[s].wp[w].grid_id_p = CACHED],
                    Hw(d).grid_id[s][w])
  IN Get(AssertWp(m, d))

\* warp_get_grid_id
warp_get_grid_id(m, d, s, w) ==
  LET Get(a) ==
        IF a.sys.dev[d].sm[s].wp[w].grid_id_p
        THEN Return(a, a.sys.dev[d].sm[s].wp[w].grid_id)
        ELSE Return([ApiCall(a, Api("read_grid_id", <<d, s, w>>)) EXCEPT
                       !.sys.dev[d].sm[s].wp[w].grid_id = Hw(d).grid_id[s][w],
                       !.sys.dev[d].sm[s].wp[w].grid_id_p = CACHED],
                    Hw(d).grid_id[s][w])
  IN Get(AssertWp(m, d))

\* kernels_find_kernel_by_grid_id: the id of the kernel registered for grid g
\* of device d, 0 (NULL) when there is none.
kernels_find_kernel_by_grid_id(ks, d, g) ==
  IF \E k \in ks : k.dev_id = d /\ k.grid_id = g
  THEN (CHOOSE k \in ks : k.dev_id = d /\ k.grid_id = g).id
  ELSE 0

\* kernels_start_kernel: a new kernel record, with the next kernel id.
kernels_start_kernel(ks, d, g) ==
  ks \cup {[id |-> Cardinality(ks) + 1, dev_id |-> d, grid_id |-> g]}

\* device_create_kernel starting the kernel without asking the debug API for
\* the grid.
device_create_kernel_without_grid_info(m, d, g) ==
  [m EXCEPT !.kernels = kernels_start_kernel(@, d, g)]

\* device_create_kernel
device_create_kernel(m, d, g) ==
  [ApiCall(m, Api("get_grid_info", <<d, g>>)) EXCEPT
     !.kernels = kernels_start_kernel(@, d, g)]

\* warp_get_kernel
warp_get_kernel(m, d, s, w) ==
  LET Store(c, kernel) ==
        Return([c EXCEPT !.sys.dev[d].sm[s].wp[w].kernel = kernel,
                         !.sys.dev[d].sm[s].wp[w].kernel_p = CACHED], kernel)
      Find(c, grid_id) ==
        Store(c, kernels_find_kernel_by_grid_id(c.kernels, d, grid_id))
      Miss(g) ==
        IF /\ kernels_find_kernel_by_grid_id(g.kernels, d, g.ret) = 0
           /\ options.defer_kernel_launch_notifications
        THEN Find(device_create_kernel(g, d, g.ret), g.ret)
        ELSE Find(g, g.ret)
      Get(a) ==
        IF a.sys.dev[d].sm[s].wp[w].kernel_p
        THEN Return(a, a.sys.dev[d].sm[s].wp[w].kernel)
        ELSE Miss(warp_get_grid_id(a, d, s, w))
  IN Get(AssertWp(m, d))

\* warp_get_block_idx
warp_get_block_idx(m, d, s, w) ==
  LET Get(a) ==
        IF a.sys.dev[d].sm[s].wp[w].block_idx_p
        THEN Return(a, a.sys.dev[d].sm[s].wp[w].block_idx)
        ELSE Return([ApiCall(a, Api("read_block_idx", <<d, s, w>>)) EXCEPT
                       !.sys.dev[d].sm[s].wp[w].block_idx =
                          Hw(d).block_idx[s][w],
                       !.sys.dev[d].sm[s].wp[w].block_idx_p = CACHED],
                    Hw(d).block_idx[s][w])
  IN Get(AssertWp(m, d))

\* warp_get_valid_lanes_mask
warp_get_valid_lanes_mask(m, d, s, w) ==
  LET Stamp(c, mask) ==
        Return(IF ~c.sys.dev[d].sm[s].wp[w].timestamp_p
               THEN [c EXCEPT
                       !.sys.dev[d].sm[s].wp[w].timestamp_p = TRUE,
                       !.sys.dev[d].sm[s].wp[w].timestamp = cuda_clock]
               ELSE c, mask)
      Store(r, mask) ==
        Stamp([r EXCEPT
                 !.sys.dev[d].sm[s].wp[w].valid_lanes_mask = mask,
                 !.sys.dev[d].sm[s].wp[w].valid_lanes_mask_p = CACHED], mask)
      Miss(v) ==
        IF v.ret
        THEN Store(ApiCall(v, Api("read_valid_lanes", <<d, s, w>>)),
                   Hw(d).valid_lanes[s][w])
        ELSE Store(v, 0)
      Get(a) ==
        IF a.sys.dev[d].sm[s].wp[w].valid_lanes_mask_p
        THEN Return(a, a.sys.dev[d].sm[s].wp[w].valid_lanes_mask)
        ELSE Miss(warp_is_valid(a, d, s, w))
  IN Get(AssertWp(m, d))

\* warp_get_active_lanes_mask
warp_get_active_lanes_mask(m, d, s, w) ==
  LET Get(a) ==
        IF a.sys.dev[d].sm[s].wp[w].active_lanes_mask_p
        THEN Return(a, a.sys.dev[d].sm[s].wp[w].active_lanes_mask)
        ELSE Return([ApiCall(a, Api("read_active_lanes", <<d, s, w>>)) EXCEPT
                       !.sys.dev[d].sm[s].wp[w].active_lanes_mask =
                          Hw(d).active_lanes[s][w],
                       !.sys.dev[d].sm[s].wp[w].active_lanes_mask_p = CACHED],
                    Hw(d).active_lanes[s][w])
  IN Get(AssertWp(m, d))

\* lane_is_valid stamping the lane on every call.
lane_is_valid_stamps_every_call(m, d, s, w, l) ==
  LET Stamp(r) ==
        Return([r EXCEPT
                  !.sys.dev[d].sm[s].wp[w].ln[l].timestamp_p = TRUE,
                  !.sys.dev[d].sm[s].wp[w].ln[l].timestamp = cuda_clock],
               Bit(r.ret, l))
  IN Stamp(warp_get_valid_lanes_mask(AssertLn(m, d), d, s, w))

\* lane_is_valid
lane_is_valid(m, d, s, w, l) ==
  LET Stamp(r) ==
        Return(IF ~r.sys.dev[d].sm[s].wp[w].ln[l].timestamp_p
               THEN [r EXCEPT
                       !.sys.dev[d].sm[s].wp[w].ln[l].timestamp_p = TRUE,
                       !.sys.dev[d].sm[s].wp[w].ln[l].timestamp = cuda_clock]
               ELSE r, Bit(r.ret, l))
  IN Stamp(warp_get_valid_lanes_mask(AssertLn(m, d), d, s, w))

\* The assertions every getter of a lane begins with, the last of which is
\* gdb_assert (lane_is_valid (dev_id, sm_id, wp_id, ln_id)); ret tells whether
\* it holds.
AssertValidLane(m, d, s, w, l) == lane_is_valid(AssertLn(m, d), d, s, w, l)

\* lane_is_active, called on a lane for which the assertions hold.
lane_is_active(m, d, s, w, l) ==
  LET Test(r) == Return(r, Bit(r.ret, l))
  IN Test(warp_get_active_lanes_mask(AssertValidLane(m, d, s, w, l), d, s, w))

\* lane_get_thread_idx, called on a lane for which the assertions hold.
lane_get_thread_idx(m, d, s, w, l) ==
  LET Get(a) ==
        IF a.sys.dev[d].sm[s].wp[w].ln[l].thread_idx_p
        THEN Return(a, a.sys.dev[d].sm[s].wp[w].ln[l].thread_idx)
        ELSE Return([ApiCall(a, Api("read_thread_idx", <<d, s, w, l>>)) EXCEPT
                       !.sys.dev[d].sm[s].wp[w].ln[l].thread_idx_p = CACHED,
                       !.sys.dev[d].sm[s].wp[w].ln[l].thread_idx =
                          Hw(d).thread_idx[s][w][l]],
                    Hw(d).thread_idx[s][w][l])
  IN Get(AssertValidLane(m, d, s, w, l))

\* The loop of lane_get_virtual_pc over the other lanes, from lane o on.
RECURSIVE lane_get_virtual_pc_others(_, _, _, _, _, _)
lane_get_virtual_pc_others(m, d, s, w, virtual_pc, o) ==
  LET Copy(a) ==
        IF a.ret
        THEN [a EXCEPT
                !.sys.dev[d].sm[s].wp[w].ln[o].virtual_pc_p = CACHED,
                !.sys.dev[d].sm[s].wp[w].ln[o].virtual_pc = virtual_pc]
        ELSE a
      Active(v) == IF v.ret THEN Copy(lane_is_active(v, d, s, w, o)) ELSE v
      Test(c) ==
        IF o < c.ret
        THEN lane_get_virtual_pc_others(
               Active(lane_is_valid(c, d, s, w, o)), d, s, w, virtual_pc,
               o + 1)
        ELSE c
  IN Test(device_get_num_lanes(m, d))

\* lane_get_virtual_pc, called on a lane for which the assertions hold.
lane_get_virtual_pc(m, d, s, w, l) ==
  LET virtual_pc == Hw(d).virtual_pc[s][w][l]
      Result(p) == Return(p, p.sys.dev[d].sm[s].wp[w].ln[l].virtual_pc)
      Others(act) ==
        IF act.ret
        THEN lane_get_virtual_pc_others(act, d, s, w, virtual_pc, 0)
        ELSE act
      Get(a) ==
        IF a.sys.dev[d].sm[s].wp[w].ln[l].virtual_pc_p
        THEN Return(a, a.sys.dev[d].sm[s].wp[w].ln[l].virtual_pc)
        ELSE Result(Others(lane_is_active(
               [ApiCall(a, Api("read_virtual_pc", <<d, s, w, l>>)) EXCEPT
                  !.sys.dev[d].sm[s].wp[w].ln[l].virtual_pc_p = CACHED,
                  !.sys.dev[d].sm[s].wp[w].ln[l].virtual_pc = virtual_pc],
               d, s, w, l)))
  IN Get(AssertValidLane(m, d, s, w, l))

\* The loop of lane_get_pc over the other lanes copying the pc to no lane.
lane_get_pc_others_copies_nothing(m, d, s, w, pc_read, o) == m

\* The loop of lane_get_pc over the other lanes, from lane o on.
RECURSIVE lane_get_pc_others(_, _, _, _, _, _)
lane_get_pc_others(m, d, s, w, pc_read, o) ==
  LET Copy(a) ==
        IF a.ret
        THEN [a EXCEPT !.sys.dev[d].sm[s].wp[w].ln[o].pc_p = CACHED,
                       !.sys.dev[d].sm[s].wp[w].ln[o].pc = pc_read]
        ELSE a
      Active(v) == IF v.ret THEN Copy(lane_is_active(v, d, s, w, o)) ELSE v
      Test(c) ==
        IF o < c.ret
        THEN lane_get_pc_others(Active(lane_is_valid(c, d, s, w, o)),
                                d, s, w, pc_read, o + 1)
        ELSE c
  IN Test(device_get_num_lanes(m, d))

\* lane_get_pc, called on a lane for which the assertions hold.
lane_get_pc(m, d, s, w, l) ==
  LET pc_read == Hw(d).pc[s][w][l]
      Result(p) == Return(p, p.sys.dev[d].sm[s].wp[w].ln[l].pc)
      Others(act) ==
        IF act.ret THEN lane_get_pc_others(act, d, s, w, pc_read, 0) ELSE act
      Get(a) ==
        IF a.sys.dev[d].sm[s].wp[w].ln[l].pc_p
        THEN Return(a, a.sys.dev[d].sm[s].wp[w].ln[l].pc)
        ELSE Result(Others(lane_is_active(
               [ApiCall(a, Api("read_pc", <<d, s, w, l>>)) EXCEPT
                  !.sys.dev[d].sm[s].wp[w].ln[l].pc_p = CACHED,
                  !.sys.dev[d].sm[s].wp[w].ln[l].pc = pc_read],
               d, s, w, l)))
  IN Get(AssertValidLane(m, d, s, w, l))

\* lane_get_exception, called on a lane for which the assertions hold.
lane_get_exception(m, d, s, w, l) ==
  LET Get(a) ==
        IF a.sys.dev[d].sm[s].wp[w].ln[l].exception_p
        THEN Return(a, a.sys.dev[d].sm[s].wp[w].ln[l].exception)
        ELSE Return([ApiCall(a, Api("read_lane_exception", <<d, s, w, l>>))
                     EXCEPT
                       !.sys.dev[d].sm[s].wp[w].ln[l].exception_p = CACHED,
                       !.sys.dev[d].sm[s].wp[w].ln[l].exception =
                          Hw(d).exception[s][w][l]],
                    Hw(d).exception[s][w][l])
  IN Get(AssertValidLane(m, d, s, w, l))

\* The loop of warp_single_step over the warps of SM s, from warp i on,
\* single_stepped_warp_mask being the mask the debug API returned.
RECURSIVE warp_single_step_warps(_, _, _, _, _)
warp_single_step_warps(m, d, s, single_stepped_warp_mask, i) ==
  LET Step(c) == IF Bit(single_stepped_warp_mask, i)
                 THEN warp_invalidate(c, d, s, i) ELSE c
      Test(c) ==
        IF i < c.ret
        THEN warp_single_step_warps(Step(c), d, s, single_stepped_warp_mask,
                                    i + 1)
        ELSE c
  IN Test(device_get_num_warps(m, d))

\* warp_single_step invalidating the stepped warps and the SM only, whatever
\* the option and the mask.
warp_single_step_never_whole_device(m, d, s, w, single_stepped_warp_mask) ==
  sm_invalidate(
    warp_single_step_warps(
      ApiCall(AssertWp(m, d),
              Api("single_step_warp", <<d, s, w, single_stepped_warp_mask>>)),
      d, s, single_stepped_warp_mask, 0),
    d, s, "NON_RECURSIVE")

\* warp_single_step invalidating the whole device, whatever the option and
\* the mask.
warp_single_step_always_whole_device(m, d, s, w, single_stepped_warp_mask) ==
  device_invalidate(
    ApiCall(AssertWp(m, d),
            Api("single_step_warp", <<d, s, w, single_stepped_warp_mask>>)),
    d)

\* warp_single_step, single_stepped_warp_mask being the mask the debug API
\* returns; the call is recorded with its arguments and that mask.
warp_single_step(m, d, s, w, single_stepped_warp_mask) ==
  LET Others(a) ==
        IF ClearBit(single_stepped_warp_mask, w) # 0
        THEN device_invalidate(a, d) ELSE a
      Step(a) ==
        IF options.software_preemption
        THEN device_invalidate(a, d)
        ELSE sm_invalidate(
               warp_single_step_warps(Others(a), d, s,
                                      single_stepped_warp_mask, 0),
               d, s, "NON_RECURSIVE")
  IN Step(ApiCall(AssertWp(m, d),
                  Api("single_step_warp",
                      <<d, s, w, single_stepped_warp_mask>>)))

\* The debug-API calls of m that are calls of name.
CallsOf(m_api, name) == SelectSeq(m_api, LAMBDA c : c.call = name)

\* The operation that produced machine m returns: its effects become the
\* state.
Commit(ran) ==
  \E m \in {ran} :
    /\ cuda_system_info' = m.sys
    /\ kernels' = m.kernels
    /\ api' = m.api

\* At most MaxReads exception bitmaps are recorded per device.
MaxReads == 2

\* exception_state_reads after an operation that made the debug-API calls
\* m_api: each read_device_exception_state of a device is recorded with the
\* bitmap the debug API answered.
ReadsAfter(m_api) ==
  [d \in Devs |->
     IF /\ \E i \in 1 .. Len(m_api) :
             m_api[i] = [call |-> "read_device_exception_state", at |-> <<d>>]
        /\ Len(exception_state_reads[d]) < MaxReads
     THEN Append(exception_state_reads[d], Hw(d).exception_sms)
     ELSE exception_state_reads[d]]

\* A call, from the debugger, of an operation that leaves the devices as
\* they are.
Call(m) ==
  /\ Commit(m)
  /\ exception_state_reads' = ReadsAfter(m.api)
  /\ UNCHANGED <<hw, contexts, options, cuda_clock, focus>>
  /\ UNCHANGED evars
  /\ UNCHANGED nvars

\* context_new and contexts_add_context: the context joins the list of the
\* registry.
contexts_add_context(cs, context_id) ==
  [cs EXCEPT !.list = @ \cup {context_id}]

\* contexts_stack_context: the context is pushed on the stack of thread tid.
contexts_stack_context(cs, context_id, tid) ==
  [cs EXCEPT !.stacks[tid] = <<context_id>> \o @]

\* cuda_event_create_context, for an event with a valid thread id and a
\* context id no live context has.
cuda_event_create_context(d, context_id, tid) ==
  /\ \A e \in Devs : context_id \notin contexts[e].list
  /\ contexts' = [contexts EXCEPT ![d] =
       contexts_stack_context(contexts_add_context(@, context_id),
                              context_id, tid)]
  /\ api' = <<>>
  /\ UNCHANGED <<cuda_system_info, kernels, hw, options, cuda_clock, focus>>
  /\ UNCHANGED <<exception_state_reads, evars>>
  /\ UNCHANGED nvars

\* A call of device_suspend.
Call_device_suspend(d) == Call(device_suspend(Machine, d))

\* A call of device_resume.  A device that resume_device has set running is
\* in one of the states of after when it is looked at next.
Call_device_resume(d, after) ==
  /\ Commit(device_resume(Machine, d))
  /\ IF CallsOf(api', "resume_device") # <<>>
     THEN \E h \in after : hw' = [hw EXCEPT ![d] = h]
     ELSE hw' = hw
  /\ exception_state_reads' = [exception_state_reads EXCEPT ![d] = <<>>]
  /\ UNCHANGED <<contexts, options, cuda_clock, focus>>
  /\ UNCHANGED evars
  /\ UNCHANGED nvars

Call_device_is_valid(d) == Call(device_is_valid(Machine, d))

Call_device_filter_exception_state(d) ==
  Call(device_filter_exception_state(Machine, d))

Call_warp_is_broken(d, s, w) == Call(warp_is_broken(Machine, d, s, w))

Call_warp_get_kernel(d, s, w) == Call(warp_get_kernel(Machine, d, s, w))

Call_warp_get_block_idx(d, s, w) == Call(warp_get_block_idx(Machine, d, s, w))

Call_lane_is_valid(d, s, w, l) == Call(lane_is_valid(Machine, d, s, w, l))

\* The getters of a lane are called on lanes for which their assertions hold.
Call_lane_get_thread_idx(d, s, w, l) ==
  /\ AssertValidLane(Machine, d, s, w, l).ret
  /\ Call(lane_get_thread_idx(Machine, d, s, w, l))

Call_lane_get_virtual_pc(d, s, w, l) ==
  /\ AssertValidLane(Machine, d, s, w, l).ret
  /\ Call(lane_get_virtual_pc(Machine, d, s, w, l))

Call_lane_get_pc(d, s, w, l) ==
  /\ AssertValidLane(Machine, d, s, w, l).ret
  /\ Call(lane_get_pc(Machine, d, s, w, l))

Call_lane_get_exception(d, s, w, l) ==
  /\ AssertValidLane(Machine, d, s, w, l).ret
  /\ Call(lane_get_exception(Machine, d, s, w, l))

\* The state mirror after cuda_system_initialize, before any event.
SystemStart ==
  /\ cuda_system_info = cuda_system_initialize
  /\ contexts = [d \in Devs |-> contexts_new]
  /\ kernels = {}
  /\ cuda_clock = 0
  /\ api = <<>>
  /\ exception_state_reads = [d \in Devs |-> <<>>]
  /\ attach_state = "NOT_STARTED"
  /\ current_context = 0
  /\ auto_breakpoints = {}
  /\ error = ""
  /\ sequence = [step |-> 0]
  /\ kernel_ready_sent = {}
  /\ modules = [c \in ContextIds |-> <<>>]
  /\ calls = <<>>
  /\ queue = <<>>
  /\ consumed = <<>>
  /\ produced = <<>>

\* The state after construction, no info command having been given.
SystemInit ==
  /\ SystemStart
  /\ running = <<>>
  /\ rows = <<>>

\* Suspension and resumption of the devices as contexts are created on them.
SuspendInit ==
  /\ NotifStart
  /\ supports_tid = TRUE
  /\ SystemInit
  /\ hw \in [Devs -> DeviceStates]
  /\ options = [defer_kernel_launch_notifications |-> FALSE,
                software_preemption |-> FALSE,
                break_on_launch_application |-> FALSE,
                break_on_launch_system |-> FALSE,
                coalescing |-> TRUE]
  /\ focus = FirstLane

SuspendNext ==
  \/ \E d \in Devs, c \in ContextIds, t \in Tids :
       cuda_event_create_context(d, c, t)
  \/ \E d \in Devs : Call_device_suspend(d)
  \/ \E d \in Devs : Call_device_resume(d, DeviceStates)
  \/ \E d \in Devs : Call_device_is_valid(d)

\* The caches of the device in focus as the debugger inspects the lane in
\* focus during one stop of the device: the focus is the first lane of the
\* first device, the device in focus is found in the same state whenever it
\* is looked at, and the other devices are idle.
CacheInit ==
  /\ NotifStart
  /\ supports_tid = TRUE
  /\ SystemInit
  /\ focus = FirstLane
  /\ hw \in {h \in [Devs -> DeviceStates] :
               \A d \in Devs : d # focus.dev => h[d] = "idle"}
  /\ options = [defer_kernel_launch_notifications |-> TRUE,
                software_preemption |-> FALSE,
                break_on_launch_application |-> FALSE,
                break_on_launch_system |-> FALSE,
                coalescing |-> TRUE]

CacheNext ==
  LET d == focus.dev
      s == focus.sm
      w == focus.wp
      l == focus.ln
  IN \/ cuda_event_create_context(d, 1, 1)
     \/ Call_device_suspend(d)
     \/ Call_device_resume(d, {hw[d]})
     \/ Call_device_is_valid(d)
     \/ Call_device_filter_exception_state(d)
     \/ Call_warp_is_broken(d, s, w)
     \/ Call_warp_get_kernel(d, s, w)
     \/ Call_warp_get_block_idx(d, s, w)
     \/ Call_lane_is_valid(d, s, w, l)
     \/ Call_lane_get_thread_idx(d, s, w, l)
     \/ Call_lane_get_virtual_pc(d, s, w, l)
     \/ Call_lane_get_pc(d, s, w, l)
     \/ Call_lane_get_exception(d, s, w, l)

\* The physical coordinates of lane 0 of the last warp of the last SM of
\* device 0: the warp that is valid in every state but the idle one.
LastWarp == [dev |-> 0, sm |-> NumSms - 1, wp |-> NumWarps - 1, ln |-> 0]

Call_lane_is_active(d, s, w, l) ==
  /\ AssertValidLane(Machine, d, s, w, l).ret
  /\ Call(lane_is_active(Machine, d, s, w, l))

\* The pcs of the lanes of one warp as the debugger reads them during stops
\* of its device: the warp in focus is the last warp of the first device,
\* found either with lane 0 active and the other lanes divergent or with all
\* its lanes active, and the other devices are idle.
PcInit ==
  /\ NotifStart
  /\ supports_tid = TRUE
  /\ SystemInit
  /\ focus = LastWarp
  /\ hw \in {h \in [Devs -> DeviceStates] :
               /\ h[focus.dev] \in {"breakpoint", "exception"}
               /\ \A d \in Devs : d # focus.dev => h[d] = "idle"}
  /\ options = [defer_kernel_launch_notifications |-> FALSE,
                software_preemption |-> FALSE,
                break_on_launch_application |-> FALSE,
                break_on_launch_system |-> FALSE,
                coalescing |-> TRUE]

PcNext ==
  LET d == focus.dev
      s == focus.sm
      w == focus.wp
  IN \/ \E l \in Lanes : Call_lane_is_active(d, s, w, l)
     \/ \E l \in Lanes : Call_lane_get_virtual_pc(d, s, w, l)
     \/ \E l \in Lanes : Call_lane_get_pc(d, s, w, l)
     \/ Call_device_resume(d, {hw[d]})

Call_warp_is_valid(d, s, w) == Call(warp_is_valid(Machine, d, s, w))

Call_warp_get_valid_lanes_mask(d, s, w) ==
  Call(warp_get_valid_lanes_mask(Machine, d, s, w))

Call_warp_get_active_lanes_mask(d, s, w) ==
  Call(warp_get_active_lanes_mask(Machine, d, s, w))

\* The masks of the SM and of the warp in focus as the first device is
\* suspended, inspected and resumed time after time: the device starts idle
\* and each resume_device sets it running, to be found idle, at a breakpoint,
\* stopped by an exception or with its last warp exited when it is looked at
\* next; the other devices are idle.
MaskInit ==
  /\ NotifStart
  /\ supports_tid = TRUE
  /\ SystemInit
  /\ focus = LastWarp
  /\ hw = [d \in Devs |-> "idle"]
  /\ options = [defer_kernel_launch_notifications |-> FALSE,
                software_preemption |-> FALSE,
                break_on_launch_application |-> FALSE,
                break_on_launch_system |-> FALSE,
                coalescing |-> TRUE]

MaskNext ==
  LET d == focus.dev
      s == focus.sm
      w == focus.wp
  IN \/ cuda_event_create_context(d, 1, 1)
     \/ Call_device_suspend(d)
     \/ Call_device_resume(d, DeviceStates \cup {"exited"})
     \/ Call_warp_is_valid(d, s, w)
     \/ Call_warp_is_broken(d, s, w)
     \/ Call_warp_get_valid_lanes_mask(d, s, w)
     \/ Call_warp_get_active_lanes_mask(d, s, w)

\* The masks single_step_warp may return for warp w of SM s of device d: the
\* warps it stepped are valid warps of the SM, w among them.
SteppedMasks(d, s, w) ==
  {mask \in 0 .. AllBits(NumWarps) :
     Bit(mask, w) /\ \A i \in Warps : Bit(mask, i) =>
                                        Bit(Hw(d).valid_warps[s], i)}

\* The states device d may be found in after a single step: a warp stepped
\* from a breakpoint is still there or has exited, and the device is then
\* idle; otherwise the device is found in the state it was in.
SteppedStates(d) ==
  IF hw[d] = "breakpoint" THEN {"breakpoint", "idle"} ELSE {hw[d]}

\* A call of warp_single_step on a valid warp, the debug API returning mask.
Call_warp_single_step(d, s, w, mask) ==
  /\ Bit(Hw(d).valid_warps[s], w)
  /\ Commit(warp_single_step(Machine, d, s, w, mask))
  /\ \E h \in SteppedStates(d) : hw' = [hw EXCEPT ![d] = h]
  /\ UNCHANGED <<contexts, options, cuda_clock, focus>>
  /\ UNCHANGED <<exception_state_reads, evars>>
  /\ UNCHANGED nvars

\* Single steps of the last warp of the first device between its
\* suspensions, with software preemption on or off: the devices start idle
\* with no context, the first device is found in any state after a
\* resume_device, the other devices stay idle, and the debugger asks for the
\* validity of the devices, filters the exceptions of the first device and
\* reads the exception of the lane in focus.
StepInit ==
  /\ NotifStart
  /\ supports_tid = TRUE
  /\ SystemInit
  /\ focus = LastWarp
  /\ hw = [d \in Devs |-> "idle"]
  /\ options \in [defer_kernel_launch_notifications : {FALSE},
                  software_preemption : BOOLEAN,
                  break_on_launch_application : {FALSE},
                  break_on_launch_system : {FALSE},
                  coalescing : {TRUE}]

StepNext ==
  LET d == focus.dev
      s == focus.sm
      w == focus.wp
      l == focus.ln
  IN \/ \E e \in Devs : cuda_event_create_context(e, e + 1, 1)
     \/ Call_device_suspend(d)
     \/ Call_device_resume(d, DeviceStates)
     \/ \E e \in Devs : Call_device_is_valid(e)
     \/ Call_device_filter_exception_state(d)
     \/ Call_lane_get_exception(d, s, w, l)
     \/ \E mask \in SteppedMasks(d, s, w) : Call_warp_single_step(d, s, w, mask)

\* ~0U, the thread id of an event that carries no valid thread id: all bits
\* set, which is -1 read as a signed number.
InvalidTid == -1

\* The message of the error an event with an invalid thread id raises.
InvalidThreadId == "A CUDA event reported an invalid thread id."

\* At most MaxStack contexts are on the stack of a thread.
MaxStack == 3

\* At most MaxModules modules are loaded, with ids from 1 on.
MaxModules == 2

\* contexts_find_context_by_id: the context of the registry with that id, 0
\* (NULL) when there is none.
contexts_find_context_by_id(cs, context_id) ==
  IF context_id \in cs.list THEN context_id ELSE 0

\* contexts_get_active_context: the top of the stack of thread tid, 0 (NULL)
\* when the stack is empty.
contexts_get_active_context(cs, tid) ==
  IF cs.stacks[tid] = <<>> THEN 0 ELSE Head(cs.stacks[tid])

\* contexts_unstack_context: the stack of thread tid is popped.
contexts_unstack_context(cs, tid) == [cs EXCEPT !.stacks[tid] = Tail(@)]

\* contexts_remove_context: the context leaves the list of the registry.
contexts_remove_context(cs, context) == [cs EXCEPT !.list = @ \ {context}]

\* cuda_cleanup_auto_breakpoints: the auto breakpoints of the context go.
cuda_cleanup_auto_breakpoints(bps, context_id) ==
  {b \in bps : b.context_id # context_id}

\* cuda_create_auto_breakpoint
cuda_create_auto_breakpoint(bps, virt_code_base, context_id) ==
  bps \cup {[addr |-> virt_code_base, context_id |-> context_id]}

\* What the event handlers read and write, as an event finds it.
Events ==
  [contexts |-> contexts, kernels |-> kernels, attach_state |-> attach_state,
   current_context |-> current_context,
   auto_breakpoints |-> auto_breakpoints, modules |-> modules,
   error |-> "", calls |-> <<>>]

\* error (msg): the handler is left at once.
Raise(e, msg) == [e EXCEPT !.error = msg]

\* The handler calls op with arg: calls keeps the order of the calls.
Called(e, op, arg) == [e EXCEPT !.calls = Append(@, <<op, arg>>)]

\* cuda_event_create_context, for any thread id.
create_context(e, dev_id, context_id, tid) ==
  IF tid = InvalidTid THEN Raise(e, InvalidThreadId)
  ELSE [e EXCEPT !.contexts[dev_id] =
                    contexts_stack_context(
                      contexts_add_context(@, context_id), context_id, tid),
                 !.modules[context_id] = <<>>]

\* context_delete: the context goes with its modules.
context_delete(ms, context) ==
  [c \in DOMAIN ms |-> IF c = context THEN <<>> ELSE ms[c]]

\* cuda_event_destroy_context, from the lookup of the context on: pop and
\* clear tell whether the stack of the thread is popped and whether the
\* current context is reset, when the conditions of the two hold.
destroy_context_from_lookup(e, dev_id, context_id, tid, pop, clear) ==
  LET context == contexts_find_context_by_id(e.contexts[dev_id], context_id)
      Unstack(a) ==
        IF pop /\ contexts_get_active_context(a.contexts[dev_id], tid) = context
        THEN [a EXCEPT !.contexts[dev_id] = contexts_unstack_context(@, tid)]
        ELSE a
      Current(a) ==
        IF clear /\ context = a.current_context
        THEN Called([a EXCEPT !.current_context = 0],
                    "set_current_context", 0)
        ELSE a
      Cleanup(a) ==
        Called([a EXCEPT !.auto_breakpoints =
                           cuda_cleanup_auto_breakpoints(@, context_id)],
               "cuda_cleanup_auto_breakpoints", context_id)
      Unresolve(a) == Called(a, "cuda_unresolve_breakpoints", context_id)
      Remove(a) ==
        Called([a EXCEPT !.contexts[dev_id] =
                           contexts_remove_context(@, context)],
               "contexts_remove_context", context)
      Delete(a) ==
        Called([a EXCEPT !.modules = context_delete(@, context)],
               "context_delete", context)
  IN Delete(Remove(Unresolve(Cleanup(Current(Unstack(e))))))

\* cuda_event_destroy_context without the pop of the stack of the thread.
destroy_context_keeps_stack(e, dev_id, context_id, tid) ==
  IF tid = InvalidTid THEN Raise(e, InvalidThreadId)
  ELSE destroy_context_from_lookup(e, dev_id, context_id, tid, FALSE, TRUE)

\* cuda_event_destroy_context without the reset of the current context.
destroy_context_keeps_current(e, dev_id, context_id, tid) ==
  IF tid = InvalidTid THEN Raise(e, InvalidThreadId)
  ELSE destroy_context_from_lookup(e, dev_id, context_id, tid, TRUE, FALSE)

\* cuda_event_destroy_context
destroy_context(e, dev_id, context_id, tid) ==
  IF tid = InvalidTid THEN Raise(e, InvalidThreadId)
  ELSE destroy_context_from_lookup(e, dev_id, context_id, tid, TRUE, TRUE)

\* cuda_event_push_context looking at the thread id before the attach state.
push_context_checks_tid_first(e, dev_id, context_id, tid) ==
  IF tid = InvalidTid THEN Raise(e, InvalidThreadId)
  ELSE IF e.attach_state # "NOT_STARTED" THEN e
  ELSE [e EXCEPT !.contexts[dev_id] =
          contexts_stack_context(
            @, contexts_find_context_by_id(@, context_id), tid)]

\* cuda_event_push_context
push_context(e, dev_id, context_id, tid) ==
  IF e.attach_state # "NOT_STARTED" THEN e
  ELSE IF tid = InvalidTid THEN Raise(e, InvalidThreadId)
  ELSE [e EXCEPT !.contexts[dev_id] =
          contexts_stack_context(
            @, contexts_find_context_by_id(@, context_id), tid)]

\* cuda_event_pop_context
pop_context(e, dev_id, context_id, tid) ==
  IF e.attach_state # "NOT_STARTED" THEN e
  ELSE IF tid = InvalidTid THEN Raise(e, InvalidThreadId)
  ELSE [e EXCEPT !.contexts[dev_id] = contexts_unstack_context(@, tid)]

\* modules_add: the module joins the list of the context.
modules_add(ms, context, module_id) ==
  [ms EXCEPT ![context] = Append(@, module_id)]

\* cuda_event_load_elf_image resolving the breakpoints before the module is
\* in the list and the context current.
load_elf_image_resolves_first(e, dev_id, context_id, module_id) ==
  LET context == contexts_find_context_by_id(e.contexts[dev_id], context_id)
      Add(a) == IF context = 0 THEN a
                ELSE [a EXCEPT !.modules = modules_add(@, context, module_id)]
      Current(a) == Called([a EXCEPT !.current_context = context],
                           "set_current_context", context)
      Resolve(a) == Called(a, "cuda_resolve_breakpoints", module_id)
  IN Current(Add(Resolve(e)))

\* cuda_event_load_elf_image, the ELF image of a module standing for the
\* module.
load_elf_image(e, dev_id, context_id, module_id) ==
  LET context == contexts_find_context_by_id(e.contexts[dev_id], context_id)
      Add(a) == IF context = 0 THEN a
                ELSE [a EXCEPT !.modules = modules_add(@, context, module_id)]
      Current(a) == Called([a EXCEPT !.current_context = context],
                           "set_current_context", context)
      Resolve(a) == Called(a, "cuda_resolve_breakpoints", module_id)
  IN Resolve(Current(Add(e)))

\* CUDBGKernelType
KernelTypes == {"UNKNOWN", "APPLICATION", "SYSTEM"}

\* cuda_event_kernel_ready looking at break_on_launch_application for the
\* kernels of the system too.
kernel_ready_one_option(e, dev_id, context_id, grid_id, tid, virt_code_base, type) ==
  LET Break(a) ==
        IF type \in {"APPLICATION", "SYSTEM"}
             /\ options.break_on_launch_application
        THEN Called([a EXCEPT !.auto_breakpoints =
                                cuda_create_auto_breakpoint(
                                  @, virt_code_base, context_id)],
                    "cuda_create_auto_breakpoint", context_id)
        ELSE a
      Start(a) ==
        Called([a EXCEPT !.kernels = kernels_start_kernel(@, dev_id, grid_id)],
               "kernels_start_kernel", grid_id)
  IN IF tid = InvalidTid THEN Raise(e, InvalidThreadId)
     ELSE Break(Start(e))

\* cuda_event_kernel_ready
kernel_ready(e, dev_id, context_id, grid_id, tid, virt_code_base, type) ==
  LET Break(a) ==
        IF \/ type = "APPLICATION" /\ options.break_on_launch_application
           \/ type = "SYSTEM" /\ options.break_on_launch_system
        THEN Called([a EXCEPT !.auto_breakpoints =
                                cuda_create_auto_breakpoint(
                                  @, virt_code_base, context_id)],
                    "cuda_create_auto_breakpoint", context_id)
        ELSE a
      Start(a) ==
        Called([a EXCEPT !.kernels = kernels_start_kernel(@, dev_id, grid_id)],
               "kernels_start_kernel", grid_id)
  IN IF tid = InvalidTid THEN Raise(e, InvalidThreadId)
     ELSE Break(Start(e))

\* The message of cuda_event_internal_error.
InternalError(errorType) ==
  "Error: Internal error reported by CUDA debugger API (error="
    \o ToString(errorType) \o "). The application cannot be further debugged."

\* cuda_event_internal_error
internal_error(e, errorType) == Raise(e, InternalError(errorType))

\* cuda_event_timeout
timeout(e) == e

\* The events of the model: the context and kernel events of a device carry
\* a context, a thread id, for ELF_IMAGE_LOADED a module and for KERNEL_READY
\* a kernel type and a grid whose code is at the address of its number; an
\* INTERNAL_ERROR carries its code as grid.
EventKinds ==
  {"CTX_CREATE", "CTX_DESTROY", "CTX_PUSH", "CTX_POP", "ELF_IMAGE_LOADED",
   "KERNEL_READY", "INTERNAL_ERROR", "TIMEOUT", "ATTACH_COMPLETE",
   "DETACH_COMPLETE"}

Event(kind, dev_id, context_id, tid, grid_id) ==
  [kind |-> kind, dev |-> dev_id, context |-> context_id, tid |-> tid,
   grid |-> grid_id, module |-> 1, type |-> "APPLICATION"]

\* cuda_process_event
cuda_process_event(e, event) ==
  CASE event.kind = "CTX_CREATE" ->
         create_context(e, event.dev, event.context, event.tid)
    [] event.kind = "CTX_DESTROY" ->
         destroy_context(e, event.dev, event.context, event.tid)
    [] event.kind = "CTX_PUSH" ->
         push_context(e, event.dev, event.context, event.tid)
    [] event.kind = "CTX_POP" ->
         pop_context(e, event.dev, event.context, event.tid)
    [] event.kind = "ELF_IMAGE_LOADED" ->
         load_elf_image(e, event.dev, event.context, event.module)
    [] event.kind = "KERNEL_READY" ->
         kernel_ready(e, event.dev, event.context, event.grid, event.tid,
                      event.grid, event.type)
    [] event.kind = "INTERNAL_ERROR" -> internal_error(e, event.grid)
    [] event.kind = "TIMEOUT" -> timeout(e)
    [] event.kind = "ATTACH_COMPLETE" ->
         [e EXCEPT !.attach_state = "APP_READY"]
    [] event.kind = "DETACH_COMPLETE" ->
         [e EXCEPT !.attach_state = "DETACH_COMPLETE"]

\* The events the debug API may send when the handlers are to find e: a
\* context is created with an id no live context has, an event that makes a
\* handler look up a context names a context of the device, a CTX_POP that
\* pops names the top of the stack, a module is loaded once, and the stacks
\* and the module lists stay within their bounds.
SendableIn(e, event) ==
  LET cs == e.contexts[event.dev]
      tid_used == event.tid # InvalidTid
      stack_used == tid_used /\ e.attach_state = "NOT_STARTED"
  IN CASE event.kind = "CTX_CREATE" ->
            /\ \A d \in Devs : event.context \notin e.contexts[d].list
            /\ tid_used => Len(cs.stacks[event.tid]) < MaxStack
       [] event.kind = "CTX_DESTROY" ->
            tid_used => event.context \in cs.list
       [] event.kind = "CTX_PUSH" ->
            stack_used => /\ event.context \in cs.list
                          /\ Len(cs.stacks[event.tid]) < MaxStack
       [] event.kind = "CTX_POP" ->
            stack_used =>
              contexts_get_active_context(cs, event.tid) = event.context
       [] event.kind = "ELF_IMAGE_LOADED" ->
            /\ event.context \in cs.list
            /\ Len(e.modules[event.context]) < MaxModules
            /\ \A c \in ContextIds : \A i \in DOMAIN e.modules[c] :
                 e.modules[c][i] # event.module
       [] OTHER -> TRUE

\* The events the debug API may send in the state: the launch of a grid is
\* notified once.
Sendable(event) ==
  /\ SendableIn(Events, event)
  /\ event.kind = "KERNEL_READY" =>
       <<event.dev, event.grid>> \notin kernel_ready_sent

\* The four events of the life of a context, in order.
Lifecycle == <<"CTX_CREATE", "CTX_PUSH", "CTX_POP", "CTX_DESTROY">>

\* sequence after event: a CTX_CREATE on a device with no context and no
\* attach in progress starts a sequence, recording the stack of the thread
\* and the current context it found; the next event of the life of that
\* context, for the same device and thread, advances it; any other event ends
\* it.
SequenceAfter(event) ==
  IF /\ event.kind = "CTX_CREATE"
     /\ event.tid # InvalidTid
     /\ contexts[event.dev].list = {}
     /\ attach_state = "NOT_STARTED"
  THEN [step |-> 1, dev |-> event.dev, context |-> event.context,
        tid |-> event.tid,
        stack |-> contexts[event.dev].stacks[event.tid],
        current |-> current_context]
  ELSE IF /\ sequence.step \in 1 .. 3
          /\ event.kind = Lifecycle[sequence.step + 1]
          /\ event.dev = sequence.dev
          /\ event.context = sequence.context
          /\ event.tid = sequence.tid
       THEN [sequence EXCEPT !.step = @ + 1]
       ELSE [step |-> 0]

\* cuda_process_event on event.
Process(event) ==
  /\ \E e \in {cuda_process_event(Events, event)} :
       /\ contexts' = e.contexts
       /\ kernels' = e.kernels
       /\ attach_state' = e.attach_state
       /\ current_context' = e.current_context
       /\ auto_breakpoints' = e.auto_breakpoints
       /\ modules' = e.modules
       /\ error' = e.error
       /\ calls' = e.calls
  /\ sequence' = SequenceAfter(event)
  /\ kernel_ready_sent' =
       IF event.kind = "KERNEL_READY"
       THEN kernel_ready_sent \cup {<<event.dev, event.grid>>}
       ELSE kernel_ready_sent
  /\ api' = <<>>
  /\ UNCHANGED <<cuda_system_info, hw, options, cuda_clock, focus,
                 exception_state_reads, qvars, ivars>>
  /\ UNCHANGED nvars

\* The events, as the debug API sends them.
cuda_event_create_context_any_tid(d, context_id, tid) ==
  /\ Sendable(Event("CTX_CREATE", d, context_id, tid, 0))
  /\ Process(Event("CTX_CREATE", d, context_id, tid, 0))

cuda_event_destroy_context(d, context_id, tid) ==
  /\ Sendable(Event("CTX_DESTROY", d, context_id, tid, 0))
  /\ Process(Event("CTX_DESTROY", d, context_id, tid, 0))

cuda_event_push_context(d, context_id, tid) ==
  /\ Sendable(Event("CTX_PUSH", d, context_id, tid, 0))
  /\ Process(Event("CTX_PUSH", d, context_id, tid, 0))

cuda_event_pop_context(d, context_id, tid) ==
  /\ Sendable(Event("CTX_POP", d, context_id, tid, 0))
  /\ Process(Event("CTX_POP", d, context_id, tid, 0))

cuda_event_load_elf_image(d, context_id, module_id) ==
  LET event == [Event("ELF_IMAGE_LOADED", d, context_id, 0, 0) EXCEPT
                  !.module = module_id]
  IN Sendable(event) /\ Process(event)

cuda_event_kernel_ready(d, context_id, grid_id, tid, type) ==
  LET event == [Event("KERNEL_READY", d, context_id, tid, grid_id) EXCEPT
                  !.type = type]
  IN Sendable(event) /\ Process(event)

\* ATTACH_COMPLETE and DETACH_COMPLETE, sent once each.
cuda_event_attach_complete ==
  /\ attach_state = "NOT_STARTED"
  /\ Process(Event("ATTACH_COMPLETE", 0, 0, 0, 0))

cuda_event_detach_complete ==
  /\ attach_state = "APP_READY"
  /\ Process(Event("DETACH_COMPLETE", 0, 0, 0, 0))

\* The kernel registry as kernels are launched on the first device, stopped
\* by an exception, with launch notifications deferred: KERNEL_READY events
\* of grids 1 and 2 arrive from a valid thread, the debugger asks for the
\* kernel of the first warp of each SM, and the device is invalidated by
\* device_resume in between.
KernelInit ==
  /\ NotifStart
  /\ supports_tid = TRUE
  /\ SystemInit
  /\ focus = FirstLane
  /\ hw = [d \in Devs |-> IF d = focus.dev THEN "exception" ELSE "idle"]
  /\ options = [defer_kernel_launch_notifications |-> TRUE,
                software_preemption |-> FALSE,
                break_on_launch_application |-> TRUE,
                break_on_launch_system |-> FALSE,
                coalescing |-> TRUE]

KernelNext ==
  LET d == focus.dev
  IN \/ \E g \in 1 .. 2 : cuda_event_kernel_ready(d, 1, g, 1, "APPLICATION")
     \/ \E s \in Sms : Call_warp_get_kernel(d, s, focus.wp)
     \/ Call_device_resume(d, {hw[d]})

\* The events of the contexts and kernels of the devices, from valid threads
\* and with an invalid thread id, before and after an attach: device d has
\* the one context d + 1, its events come from thread 1 or carry ~0U, module
\* 1 is loaded in one of the contexts, and the kernels of the application
\* are launched as grid 1 with a breakpoint set at each launch.
EventInit ==
  /\ NotifStart
  /\ supports_tid = TRUE
  /\ SystemInit
  /\ focus = FirstLane
  /\ hw = [d \in Devs |-> "idle"]
  /\ options = [defer_kernel_launch_notifications |-> FALSE,
                software_preemption |-> FALSE,
                break_on_launch_application |-> TRUE,
                break_on_launch_system |-> FALSE,
                coalescing |-> TRUE]

EventNext ==
  LET tids == {1, InvalidTid}
      context_of(d) == d + 1
  IN \/ \E d \in Devs, t \in tids :
          cuda_event_create_context_any_tid(d, context_of(d), t)
     \/ \E d \in Devs, t \in tids :
          cuda_event_destroy_context(d, context_of(d), t)
     \/ \E d \in Devs, t \in tids :
          cuda_event_push_context(d, context_of(d), t)
     \/ \E d \in Devs, t \in tids :
          cuda_event_pop_context(d, context_of(d), t)
     \/ \E d \in Devs : cuda_event_load_elf_image(d, context_of(d), 1)
     \/ \E d \in Devs, t \in tids :
          cuda_event_kernel_ready(d, context_of(d), 1, t, "APPLICATION")
     \/ cuda_event_attach_complete
     \/ cuda_event_detach_complete

\* The modules and the kernels of the contexts, with either break-on-launch
\* option on or off: contexts are created and destroyed on the first device
\* by thread 1, modules are loaded in them, and a kernel of any type is
\* launched as grid 1 of the device.
LaunchInit ==
  /\ NotifStart
  /\ supports_tid = TRUE
  /\ SystemInit
  /\ focus = FirstLane
  /\ hw = [d \in Devs |-> "idle"]
  /\ options \in [defer_kernel_launch_notifications : {FALSE},
                  software_preemption : {FALSE},
                  break_on_launch_application : BOOLEAN,
                  break_on_launch_system : BOOLEAN,
                  coalescing : {TRUE}]

LaunchNext ==
  LET d == focus.dev
  IN \/ \E c \in ContextIds : cuda_event_create_context_any_tid(d, c, 1)
     \/ \E c \in ContextIds : cuda_event_destroy_context(d, c, 1)
     \/ \E c \in ContextIds, m \in 1 .. MaxModules :
          cuda_event_load_elf_image(d, c, m)
     \/ \E c \in ContextIds, type \in KernelTypes :
          cuda_event_kernel_ready(d, c, 1, 1, type)

\* At most MaxTrace events are produced by the debug API.
MaxTrace == 4

\* cuda_event_post_process
cuda_event_post_process(e) ==
  Called(Called(e, "cuda_remove_breakpoints", 0),
         "cuda_insert_breakpoints", 0)

\* The loop of cuda_process_events, r.queue being the events the debug API
\* has yet to hand out, an empty queue standing for CUDBG_EVENT_INVALID, and
\* r.done the events consumed; the error () of a handler leaves the loop and
\* cuda_process_events at once.
RECURSIVE cuda_process_events_loop(_)
cuda_process_events_loop(r) ==
  LET Step(state) ==
        [state |-> state, queue |-> Tail(r.queue),
         done |-> Append(r.done, Head(r.queue))]
  IN IF r.queue = <<>> \/ r.state.error # "" THEN r
     ELSE cuda_process_events_loop(
            Step(cuda_process_event(
                   Called(r.state, "cuda_process_event", Len(r.done) + 1),
                   Head(r.queue))))

\* cuda_process_events that empties the queue when an event fails.
cuda_process_events_drops_rest(e, q) ==
  LET Post(r) == IF r.state.error # "" THEN [r EXCEPT !.queue = <<>>]
                 ELSE [r EXCEPT !.state = cuda_event_post_process(@)]
  IN Post(cuda_process_events_loop(
            [state |-> e, queue |-> q, done |-> <<>>]))

\* cuda_process_events that goes on with the next event after an error.
cuda_process_events_skips_errors(e, q) ==
  LET Post(r) == IF r.state.error # "" THEN r
                 ELSE [r EXCEPT !.state = cuda_event_post_process(@)]
      Quiet(r) == [r EXCEPT !.state.error = ""]
      Rest(r) == IF r.queue = <<>> THEN r
                 ELSE cuda_process_events_loop(Quiet(r))
  IN Post(Rest(cuda_process_events_loop(
                 [state |-> e, queue |-> q, done |-> <<>>])))

\* cuda_process_events
cuda_process_events(e, q) ==
  LET Post(r) == IF r.state.error # "" THEN r
                 ELSE [r EXCEPT !.state = cuda_event_post_process(@)]
  IN Post(cuda_process_events_loop(
            [state |-> e, queue |-> q, done |-> <<>>]))

\* The events of the sequence q processed one at a time by
\* cuda_process_event, each in a call of its own.
RECURSIVE Replay(_, _)
Replay(e, q) ==
  IF q = <<>> THEN e
  ELSE Replay(cuda_process_event([e EXCEPT !.error = "", !.calls = <<>>],
                                 Head(q)),
              Tail(q))

\* The debug API queues an event for the next cuda_process_events: one it
\* may send once the events queued before it have been handled, a launch
\* being notified once.
cuda_api_queue_event(event) ==
  /\ Len(produced) < MaxTrace
  /\ SendableIn(Replay(Events, queue), event)
  /\ (event.kind = "KERNEL_READY" /\ event.tid # InvalidTid) =>
       \A i \in DOMAIN produced : produced[i] # event
  /\ queue' = Append(queue, event)
  /\ produced' = Append(produced, event)
  /\ UNCHANGED <<consumed, attach_state, current_context, auto_breakpoints,
                 error, sequence, kernel_ready_sent, modules, calls,
                 ivars>>
  /\ UNCHANGED <<cuda_system_info, contexts, kernels, options, cuda_clock,
                 focus, hw, api, exception_state_reads>>
  /\ UNCHANGED nvars

\* cuda_process_events on the events of the queue, the queue possibly empty.
Call_cuda_process_events ==
  /\ \E r \in {cuda_process_events(Events, queue)} :
       /\ contexts' = r.state.contexts
       /\ kernels' = r.state.kernels
       /\ attach_state' = r.state.attach_state
       /\ current_context' = r.state.current_context
       /\ auto_breakpoints' = r.state.auto_breakpoints
       /\ modules' = r.state.modules
       /\ error' = r.state.error
       /\ calls' = r.state.calls
       /\ queue' = r.queue
       /\ consumed' = consumed \o r.done
       /\ kernel_ready_sent' =
            kernel_ready_sent \cup
              {<<r.done[i].dev, r.done[i].grid>> :
                 i \in {j \in DOMAIN r.done : r.done[j].kind = "KERNEL_READY"}}
  /\ sequence' = [step |-> 0]
  /\ api' = <<>>
  /\ UNCHANGED <<cuda_system_info, hw, options, cuda_clock, focus,
                 exception_state_reads, produced, ivars>>
  /\ UNCHANGED nvars

\* The events of the first device as the debug API queues them and
\* cuda_process_events drains them: the events of context 1 and of its
\* module and kernel from thread 1, a KERNEL_READY with thread id ~0U, an
\* INTERNAL_ERROR and a TIMEOUT, MaxTrace events in all, drained whenever
\* the debugger stops, also when the queue is empty.
DrainInit ==
  /\ NotifStart
  /\ supports_tid = TRUE
  /\ SystemInit
  /\ focus = FirstLane
  /\ hw = [d \in Devs |-> "idle"]
  /\ options = [defer_kernel_launch_notifications |-> FALSE,
                software_preemption |-> FALSE,
                break_on_launch_application |-> TRUE,
                break_on_launch_system |-> FALSE,
                coalescing |-> TRUE]

DrainNext ==
  LET d == focus.dev
  IN \/ \E kind \in {"CTX_CREATE", "CTX_DESTROY", "ELF_IMAGE_LOADED",
                     "TIMEOUT"} :
          cuda_api_queue_event(Event(kind, d, 1, 1, 0))
     \/ \E tid \in {1, InvalidTid} :
          cuda_api_queue_event(Event("KERNEL_READY", d, 1, tid, 1))
     \/ \E errorType \in 1 .. 2 :
          cuda_api_queue_event(Event("INTERNAL_ERROR", 0, 0, 0, errorType))
     \/ Call_cuda_process_events

\* The special values of a coordinate: CUDA_WILDCARD, CUDA_CURRENT and
\* CUDA_INVALID, the top three values of the type read as signed.
CUDA_WILDCARD == -1
CUDA_CURRENT == -2
CUDA_INVALID == -3

\* The fields of cuda_coords_t, the physical ones first; blockIdx and
\* threadIdx are modelled with one dimension.
PhysicalFields == <<"dev", "sm", "wp", "ln">>
LogicalFields == <<"kernelId", "blockIdx", "threadIdx">>

\* The coordinates with every field set to value.
CoordsOf(valid, value) ==
  [valid |-> valid, dev |-> value, sm |-> value, wp |-> value, ln |-> value,
   kernelId |-> value, blockIdx |-> value, threadIdx |-> value]

CUDA_INVALID_COORDS == CoordsOf(FALSE, CUDA_INVALID)
CUDA_WILDCARD_COORDS == CoordsOf(FALSE, CUDA_WILDCARD)

\* The coordinates of the valid lanes of the devices, as the debug API
\* reports them; the kernel of a grid has the id of the grid.
ValidCoords ==
  LET ValidOn(d, h) ==
        {[valid |-> TRUE, dev |-> d, sm |-> p[1], wp |-> p[2], ln |-> p[3],
          kernelId |-> h.grid_id[p[1]][p[2]],
          blockIdx |-> h.block_idx[p[1]][p[2]],
          threadIdx |-> h.thread_idx[p[1]][p[2]][p[3]]] :
           p \in {q \in Sms \X Warps \X Lanes :
                    /\ Bit(h.valid_warps[q[1]], q[2])
                    /\ Bit(h.valid_lanes[q[1]][q[2]], q[3])}}
  IN UNION {ValidOn(d, Hw(d)) : d \in Devs}

\* The requests of a parsed command: the field each names and its value.
RequestTypes ==
  {"dev", "sm", "wp", "ln", "kernelId", "blockIdx", "threadIdx"}

\* At most MaxRequests selectors are given in a command, with values up to
\* MaxValue.
MaxRequests == 2
MaxValue == 2

\* cuda_parser_result_to_coords, from request i of the command on.
RECURSIVE cuda_parser_result_to_coords(_, _, _)
cuda_parser_result_to_coords(command, coords, i) ==
  IF i > Len(command) THEN coords
  ELSE cuda_parser_result_to_coords(
         command, [coords EXCEPT ![command[i].type] = command[i].value],
         i + 1)

\* cuda_coords_evaluate_current: a field that is CUDA_CURRENT takes the value
\* of the current focus, CUDA_WILDCARD when there is no focus.
cuda_coords_evaluate_current(coords, current) ==
  [f \in DOMAIN coords |->
     IF f # "valid" /\ coords[f] = CUDA_CURRENT
     THEN (IF current.valid THEN current[f] ELSE CUDA_WILDCARD)
     ELSE coords[f]]

\* cuda_coords_equal: the fields that are not special in either agree.
cuda_coords_equal(c1, c2) ==
  \A f \in RequestTypes : c1[f] < 0 \/ c2[f] < 0 \/ c1[f] = c2[f]

\* How far the valid coordinates c are from the request along the fields,
\* the first field weighing most, a special field of the request matching
\* any value; coordinates as far as each other are told apart by their
\* physical position.
RECURSIVE Distance(_, _, _, _)
Distance(c, request, fields, i) ==
  LET Abs(x) == IF x < 0 THEN -x ELSE x
      here == IF request[fields[i]] < 0 THEN 0
              ELSE Abs(c[fields[i]] - request[fields[i]])
  IN IF i > Len(fields) THEN 0
     ELSE here * (MaxValue + 2) ^ (Len(fields) - i)
            + Distance(c, request, fields, i + 1)

Position(c) ==
  ((c.dev * NumSms + c.sm) * NumWarps + c.wp) * NumLanes + c.ln

\* The closest of the valid coordinates along the fields, invalid
\* coordinates when no lane is valid.
Closest(request, fields) ==
  LET Positions == NumDevices * NumSms * NumWarps * NumLanes
      Rank(c) == Distance(c, request, fields, 1) * Positions + Position(c)
      Least(ranks) == CHOOSE r \in ranks : \A o \in ranks : r <= o
      At(valid, least) ==
        CHOOSE c \in valid : Position(c) = least % Positions
      Pick(valid) ==
        IF valid = {} THEN CUDA_INVALID_COORDS
        ELSE At(valid, Least({Rank(c) : c \in valid}))
  IN Pick(ValidCoords)

\* cuda_coords_find_valid: the candidates CK_CLOSEST_PHYSICAL and
\* CK_CLOSEST_LOGICAL.
cuda_coords_find_valid(request) ==
  [ck \in {"CK_CLOSEST_PHYSICAL", "CK_CLOSEST_LOGICAL"} |->
     Closest(request, IF ck = "CK_CLOSEST_PHYSICAL" THEN PhysicalFields
                      ELSE LogicalFields)]

\* The messages of cuda_command_switch.
SwitchInvalid == "Invalid coordinates. CUDA focus unchanged."
SwitchUnsatisfied == "Request cannot be satisfied. CUDA focus unchanged."
SwitchUnchanged == "CUDA focus unchanged."

\* cuda_command_switch from the choice of the candidate on, ck being the
\* kind of candidate chosen: the focus it leaves and what it prints.
cuda_command_switch_with(current, command, ck) ==
  LET requested ==
        cuda_parser_result_to_coords(command, CUDA_INVALID_COORDS, 1)
      processed ==
        cuda_coords_evaluate_current(
          cuda_parser_result_to_coords(
            command, IF current.valid THEN current ELSE CUDA_WILDCARD_COORDS,
            1),
          current)
      Switch(solution) ==
        IF ~solution.valid
        THEN [focus |-> current, message |-> SwitchInvalid]
        ELSE IF ~cuda_coords_equal(requested, solution)
        THEN [focus |-> current, message |-> SwitchUnsatisfied]
        ELSE IF current.valid /\ cuda_coords_equal(solution, current)
        THEN [focus |-> current, message |-> SwitchUnchanged]
        ELSE [focus |-> solution, message |-> "focus"]
  IN Switch(cuda_coords_find_valid(processed)[ck])

\* cuda_command_switch that always takes the closest physical candidate.
cuda_command_switch_always_physical(current, command) ==
  cuda_command_switch_with(current, command, "CK_CLOSEST_PHYSICAL")

\* cuda_command_switch
cuda_command_switch(current, command) ==
  cuda_command_switch_with(
    current, command,
    IF \E i \in DOMAIN command : command[i].type \in {"dev", "sm", "wp", "ln"}
    THEN "CK_CLOSEST_PHYSICAL" ELSE "CK_CLOSEST_LOGICAL")

\* The commands the user may give.
Commands ==
  UNION {[1 .. n -> [type : RequestTypes, value : 0 .. MaxValue]] :
           n \in 1 .. MaxRequests}

\* cuda_command_switch on a command of the user.
Call_cuda_command_switch(command) ==
  /\ \E r \in {cuda_command_switch(focus, command)} :
       /\ focus' = r.focus
       /\ calls' = <<<<"cuda_command_switch", r.message>>>>
  /\ UNCHANGED <<attach_state, current_context, auto_breakpoints, error,
                 sequence, kernel_ready_sent, modules, qvars,
                 ivars>>
  /\ UNCHANGED <<cuda_system_info, contexts, kernels, options, cuda_clock,
                 hw, api, exception_state_reads>>
  /\ UNCHANGED nvars

\* The focus as the user switches it, on devices stopped in any of the
\* states the debug API reports, with no focus at first.
SwitchInit ==
  /\ NotifStart
  /\ supports_tid = TRUE
  /\ SystemInit
  /\ focus = CUDA_INVALID_COORDS
  /\ hw \in [Devs -> DeviceStates]
  /\ options = [defer_kernel_launch_notifications |-> FALSE,
                software_preemption |-> FALSE,
                break_on_launch_application |-> FALSE,
                break_on_launch_system |-> FALSE,
                coalescing |-> TRUE]

SwitchNext == \E command \in Commands : Call_cuda_command_switch(command)

\* The kernels whose threads the info commands list; the grid and the block
\* dimensions of each, <<x, y>>, the z dimension being 1.
InfoKernels == 1 .. 2

kernel_get_grid_dim(kernel) == IF kernel = 1 THEN <<2, 2>> ELSE <<1, 1>>

kernel_get_block_dim(kernel) == IF kernel = 1 THEN <<2, 1>> ELSE <<1, 1>>

\* The threads of the kernels and the blocks of the kernels, in logical
\* order: by kernel, then by block, then by thread, x running fastest. A
\* block has no thread index.
NoIdx == <<CUDA_INVALID, CUDA_INVALID>>

ThreadsOfKernel(kernel) ==
  LET g == kernel_get_grid_dim(kernel)
      b == kernel_get_block_dim(kernel)
  IN [i \in 1 .. g[1] * g[2] * b[1] * b[2] |->
        [kernelId |-> kernel,
         blockIdx |-> <<((i - 1) \div (b[1] * b[2])) % g[1],
                        (i - 1) \div (b[1] * b[2] * g[1])>>,
         threadIdx |-> <<(i - 1) % b[1], ((i - 1) \div b[1]) % b[2]>>]]

BlocksOfKernel(kernel) ==
  LET g == kernel_get_grid_dim(kernel)
  IN [i \in 1 .. g[1] * g[2] |->
        [kernelId |-> kernel,
         blockIdx |-> <<(i - 1) % g[1], (i - 1) \div g[1]>>,
         threadIdx |-> NoIdx]]

LogicalOrder == ThreadsOfKernel(1) \o ThreadsOfKernel(2)

BlockOrder == BlocksOfKernel(1) \o BlocksOfKernel(2)

LogicalThreads == {LogicalOrder[i] : i \in DOMAIN LogicalOrder}

\* cuda_iterator_create with CUDA_SELECT_VALID, for the types THREADS and
\* BLOCKS, the filter naming a kernel or none: the threads a valid lane runs,
\* the blocks a thread of which a valid lane runs, in logical order.
cuda_iterator_create(type, filter) ==
  LET Kernel(c) == filter < 0 \/ c.kernelId = filter
      Thread(c) == Kernel(c) /\ running[c] # 0
      Block(c) ==
        \E t \in LogicalThreads :
          t.kernelId = c.kernelId /\ t.blockIdx = c.blockIdx /\ Thread(t)
  IN IF type = "THREADS" THEN SelectSeq(LogicalOrder, Thread)
     ELSE SelectSeq(BlockOrder, Block)

\* cuda_coords_compare_logical: the order of the logical fields kernelId,
\* blockIdx.y, blockIdx.x, threadIdx.y, threadIdx.x, a field that is special
\* in either being skipped.
cuda_coords_compare_logical(c1, c2) ==
  LET Key(c) == <<c.kernelId, c.blockIdx[2], c.blockIdx[1], c.threadIdx[2],
                  c.threadIdx[1]>>
      Compare(k1, k2) ==
        LET differ == {i \in DOMAIN k1 :
                         k1[i] >= 0 /\ k2[i] >= 0 /\ k1[i] # k2[i]}
            at == CHOOSE i \in differ : \A j \in differ : i <= j
        IN IF differ = {} THEN 0 ELSE IF k1[at] < k2[at] THEN -1 ELSE 1
  IN Compare(Key(c1), Key(c2))

\* cuda_coords_increment_block: the next block of the grid, x running
\* fastest; the last block of the grid is left as it is.
cuda_coords_increment_block(c, grid_dim) ==
  IF c.blockIdx[1] + 1 < grid_dim[1]
  THEN [c EXCEPT !.blockIdx = <<@[1] + 1, @[2]>>]
  ELSE IF c.blockIdx[2] + 1 < grid_dim[2]
  THEN [c EXCEPT !.blockIdx = <<0, @[2] + 1>>]
  ELSE c

\* cuda_coords_increment_thread: the next thread of the block, x running
\* fastest, the first thread of the next block after the last of a block;
\* the last thread of the grid is left as it is.
cuda_coords_increment_thread(c, grid_dim, block_dim) ==
  IF c.threadIdx[1] + 1 < block_dim[1]
  THEN [c EXCEPT !.threadIdx = <<@[1] + 1, @[2]>>]
  ELSE IF c.threadIdx[2] + 1 < block_dim[2]
  THEN [c EXCEPT !.threadIdx = <<0, @[2] + 1>>]
  ELSE IF cuda_coords_increment_block(c, grid_dim) = c THEN c
  ELSE cuda_coords_increment_block([c EXCEPT !.threadIdx = <<0, 0>>],
                                   grid_dim)

\* The loop of cuda_info_threads_build from point i of the iterator on, s
\* holding the rows built so far, the last of them being *t, and expected,
\* prev_pc, prev_block_idx and prev_thread_idx; contiguity says whether the
\* loop compares the point with the expected one.
RECURSIVE cuda_info_threads_build_loop(_, _, _, _, _)
cuda_info_threads_build_loop(iter, i, s, coalescing, contiguity) ==
  LET Next(c, lane_pc, first_entry, break_of_contiguity) ==
        LET Close(threads) ==
              IF ~first_entry /\ (break_of_contiguity \/ ~coalescing)
              THEN [threads EXCEPT
                      ![Len(threads)].end_block_idx = s.prev_block_idx,
                      ![Len(threads)].end_thread_idx = s.prev_thread_idx]
              ELSE threads
            Start(threads) ==
              IF first_entry \/ break_of_contiguity \/ ~coalescing
              THEN Append(threads,
                          [kernel |-> c.kernelId, pc |-> lane_pc,
                           start_block_idx |-> c.blockIdx,
                           start_thread_idx |-> c.threadIdx,
                           end_block_idx |-> NoIdx, end_thread_idx |-> NoIdx,
                           count |-> 0])
              ELSE threads
            Count(threads) == [threads EXCEPT ![Len(threads)].count = @ + 1]
        IN [threads |-> Count(Start(Close(s.threads))),
            expected |->
              cuda_coords_increment_thread(
                c, kernel_get_grid_dim(c.kernelId),
                kernel_get_block_dim(c.kernelId)),
            prev_pc |-> lane_pc,
            prev_block_idx |-> c.blockIdx,
            prev_thread_idx |-> c.threadIdx]
  IN IF i > Len(iter) THEN s
     ELSE cuda_info_threads_build_loop(
            iter, i + 1,
            Next(iter[i], running[iter[i]], i = 1,
                 \/ contiguity
                      /\ cuda_coords_compare_logical(s.expected, iter[i]) # 0
                 \/ running[iter[i]] # s.prev_pc),
            coalescing, contiguity)

\* cuda_info_threads_build, comparing the points with the expected ones or
\* not: the rows *threads, *num_threads being their number. Addresses are
\* printed, so that a row ends where the PC changes.
cuda_info_threads_build_with(filter, coalescing, contiguity) ==
  LET Last(iter, threads) ==
        IF Len(iter) > 0
        THEN [threads EXCEPT
                ![Len(threads)].end_block_idx = iter[Len(iter)].blockIdx,
                ![Len(threads)].end_thread_idx = iter[Len(iter)].threadIdx]
        ELSE threads
      Build(iter) ==
        Last(iter,
             cuda_info_threads_build_loop(
               iter, 1,
               [threads |-> <<>>,
                expected |-> [kernelId |-> CUDA_INVALID, blockIdx |-> NoIdx,
                              threadIdx |-> NoIdx],
                prev_pc |-> 0, prev_block_idx |-> NoIdx,
                prev_thread_idx |-> NoIdx],
               coalescing, contiguity).threads)
  IN Build(cuda_iterator_create("THREADS", filter))

\* cuda_info_threads_build that ends a row only where the PC changes.
cuda_info_threads_build_by_pc(filter, coalescing) ==
  cuda_info_threads_build_with(filter, coalescing, FALSE)

\* cuda_info_threads_build
cuda_info_threads_build(filter, coalescing) ==
  cuda_info_threads_build_with(filter, coalescing, TRUE)

\* The loop of cuda_info_blocks_build from point i of the iterator on.
\* expected is not initialised when the first point is compared with it:
\* uninitialised says what the comparison gives then.
RECURSIVE cuda_info_blocks_build_loop(_, _, _, _, _)
cuda_info_blocks_build_loop(iter, i, s, coalescing, uninitialised) ==
  LET Next(c, first_entry, break_of_contiguity) ==
        LET Close(blocks) ==
              IF ~first_entry /\ (break_of_contiguity \/ ~coalescing)
              THEN [blocks EXCEPT
                      ![Len(blocks)].end_block_idx = s.prev_block_idx]
              ELSE blocks
            Start(blocks) ==
              IF first_entry \/ break_of_contiguity \/ ~coalescing
              THEN Append(blocks,
                          [kernel |-> c.kernelId,
                           start_block_idx |-> c.blockIdx,
                           end_block_idx |-> NoIdx, count |-> 0])
              ELSE blocks
            Count(blocks) == [blocks EXCEPT ![Len(blocks)].count = @ + 1]
        IN [blocks |-> Count(Start(Close(s.blocks))),
            expected |->
              cuda_coords_increment_block(
                c, kernel_get_grid_dim(c.kernelId)),
            prev_block_idx |-> c.blockIdx]
  IN IF i > Len(iter) THEN s
     ELSE cuda_info_blocks_build_loop(
            iter, i + 1,
            Next(iter[i], i = 1,
                 IF i = 1 THEN uninitialised
                 ELSE cuda_coords_compare_logical(s.expected, iter[i]) # 0),
            coalescing, uninitialised)

\* cuda_info_blocks_build: the rows *blocks.
cuda_info_blocks_build(filter, coalescing, uninitialised) ==
  LET Last(iter, blocks) ==
        IF Len(iter) > 0
        THEN [blocks EXCEPT
                ![Len(blocks)].end_block_idx = iter[Len(iter)].blockIdx]
        ELSE blocks
      Build(iter) ==
        Last(iter,
             cuda_info_blocks_build_loop(
               iter, 1,
               [blocks |-> <<>>,
                expected |-> [kernelId |-> CUDA_INVALID, blockIdx |-> NoIdx,
                              threadIdx |-> NoIdx],
                prev_block_idx |-> NoIdx],
               coalescing, uninitialised).blocks)
  IN Build(cuda_iterator_create("BLOCKS", filter))

\* The kernel an info command is given as filter, CUDA_WILDCARD for all.
Filters == {CUDA_WILDCARD} \cup InfoKernels

\* The PCs of the lanes are 1 .. MaxPc, at most MaxDiverged of them not 1.
MaxPc == 2
MaxDiverged == 1

\* 'info cuda threads' with a filter.
Call_cuda_info_threads_build(filter) ==
  /\ rows' = [command |-> "threads", filter |-> filter,
              rows |-> cuda_info_threads_build(filter, options.coalescing)]
  /\ UNCHANGED <<attach_state, current_context, auto_breakpoints, error,
                 sequence, kernel_ready_sent, modules, calls, qvars, running>>
  /\ UNCHANGED <<cuda_system_info, contexts, kernels, options, cuda_clock,
                 focus, hw, api, exception_state_reads>>
  /\ UNCHANGED nvars

\* 'info cuda blocks' with a filter.
Call_cuda_info_blocks_build(filter) ==
  /\ \E uninitialised \in BOOLEAN :
       rows' = [command |-> "blocks", filter |-> filter,
                rows |-> cuda_info_blocks_build(filter, options.coalescing,
                                                uninitialised)]
  /\ UNCHANGED <<attach_state, current_context, auto_breakpoints, error,
                 sequence, kernel_ready_sent, modules, calls, qvars, running>>
  /\ UNCHANGED <<cuda_system_info, contexts, kernels, options, cuda_clock,
                 focus, hw, api, exception_state_reads>>
  /\ UNCHANGED nvars

\* The info commands on any set of running threads, coalescing set or not.
InfoInit ==
  /\ NotifStart
  /\ supports_tid = TRUE
  /\ SystemStart
  /\ focus = FirstLane
  /\ hw = [d \in Devs |-> "idle"]
  /\ options \in [defer_kernel_launch_notifications : {FALSE},
                  software_preemption : {FALSE},
                  break_on_launch_application : {FALSE},
                  break_on_launch_system : {FALSE},
                  coalescing : BOOLEAN]
  /\ running \in {f \in [LogicalThreads -> 0 .. MaxPc] :
                    Cardinality({c \in LogicalThreads : f[c] > 1})
                      <= MaxDiverged}
  /\ rows = <<>>

InfoNext ==
  \E filter \in Filters :
    \/ Call_cuda_info_threads_build(filter)
    \/ Call_cuda_info_blocks_build(filter)

\* The info sub-commands of info_cuda_command.
InfoCommands ==
  {"devices", "sms", "warps", "lanes", "kernels", "blocks", "threads"}

\* The kernels with a valid lane, which 'info cuda kernels' lists, and the
\* context of a kernel.
InfoKernelIds == {c.kernelId : c \in ValidCoords}

kernel_get_context(kernel) == ((kernel - 1) % NumContexts) + 1

\* The focus and the current context while a command runs, with the stack
\* of the saved ones, the calls made and the error raised, if any.
Focus ==
  [focus |-> focus, current_context |-> current_context, saved |-> <<>>,
   calls |-> <<>>, error |-> ""]

\* save_current_context and cuda_save_focus
cuda_save_focus(s) ==
  [s EXCEPT !.saved = Append(@, [focus |-> s.focus,
                                 current_context |-> s.current_context])]

\* cleanup_info_cuda_command: restore_current_context and cuda_restore_focus
cleanup_info_cuda_command(s) ==
  [s EXCEPT !.focus = s.saved[Len(s.saved)].focus,
            !.current_context = s.saved[Len(s.saved)].current_context,
            !.saved = SubSeq(@, 1, Len(@) - 1)]

\* kernel_load_elf_images: the context of the kernel becomes the current one.
kernel_load_elf_images(s, kernel) ==
  [s EXCEPT !.current_context = kernel_get_context(kernel),
            !.calls = Append(@, <<"kernel_load_elf_images", kernel>>)]

\* info_cuda_kernels_print_frame_args: the focus is switched to a valid lane
\* of the kernel, if there is one, and the arguments of its outermost frame
\* are printed, which fails when failing is set.
info_cuda_kernels_print_frame_args(s, kernel, failing) ==
  LET requested == [CUDA_WILDCARD_COORDS EXCEPT !.kernelId = kernel]
      exact == {c \in ValidCoords : c.kernelId = kernel}
      Args(coords) ==
        IF ~cuda_coords_equal(requested, coords) \/ ~coords.valid THEN s
        ELSE [kernel_load_elf_images(s, kernel) EXCEPT
                !.focus = coords,
                !.calls = Append(@, <<"switch_to_cuda_thread",
                                      Position(coords)>>),
                !.error = IF failing THEN "print_args_frame" ELSE ""]
  IN Args(IF exact = {} THEN CUDA_INVALID_COORDS
          ELSE CHOOSE c \in exact :
                 \A o \in exact : Position(c) <= Position(o))

\* info_cuda_kernels_command from the kernels left to print on; printing
\* the arguments of kernel number fail raises an error.
RECURSIVE info_cuda_kernels_rows(_, _, _, _)
info_cuda_kernels_rows(s, left, i, fail) ==
  LET Row(kernel) ==
        info_cuda_kernels_rows(
          info_cuda_kernels_print_frame_args(s, kernel, fail = i),
          left \ {kernel}, i + 1, fail)
  IN IF left = {} \/ s.error # "" THEN s
     ELSE Row(CHOOSE k \in left : \A o \in left : k <= o)

info_cuda_kernels_command(s, fail) ==
  IF InfoKernelIds = {}
  THEN [s EXCEPT !.calls = Append(@, <<"ui_out_field_string", 0>>)]
  ELSE info_cuda_kernels_rows(s, InfoKernelIds, 1, fail)

\* info_cuda_threads_command as far as the focus and the context go:
\* cuda_info_threads_build loads the ELF images of the kernel of each thread.
RECURSIVE info_cuda_threads_command(_, _, _, _)
info_cuda_threads_command(s, left, i, fail) ==
  LET Row(kernel) ==
        info_cuda_threads_command(
          [kernel_load_elf_images(s, kernel) EXCEPT
             !.error = IF fail = i THEN "lane_get_virtual_pc" ELSE ""],
          left \ {kernel}, i + 1, fail)
  IN IF left = {} \/ s.error # "" THEN s
     ELSE Row(CHOOSE k \in left : \A o \in left : k <= o)

\* The command run_info_cuda_command is given, with the error it raises,
\* none if fail is 0.
info_cuda_command(s, command, fail) ==
  IF command = "kernels" THEN info_cuda_kernels_command(s, fail)
  ELSE IF command = "threads"
  THEN info_cuda_threads_command(s, InfoKernelIds, 1, fail)
  ELSE [s EXCEPT !.error = IF fail # 0 THEN "cuda_build_filter" ELSE ""]

\* run_info_cuda_command with the cleanup run by do_cleanups only, not when
\* an error unwinds.
run_info_cuda_command_unless_error(s, command, fail) ==
  LET Cleanup(after) ==
        IF after.error = "" THEN cleanup_info_cuda_command(after) ELSE after
  IN Cleanup(info_cuda_command(cuda_save_focus(s), command, fail))

\* run_info_cuda_command: the cleanup made by make_cleanup is run by
\* do_cleanups after the command, and by the unwinding of an error.
run_info_cuda_command(s, command, fail) ==
  cleanup_info_cuda_command(
    info_cuda_command(cuda_save_focus(s), command, fail))

\* An error is raised at the first, the second, ... place of a command
\* where one can be, up to place MaxFail; at none if the number is 0.
MaxFail == 2

\* 'info cuda' with a sub-command.
Call_run_info_cuda_command(command, fail) ==
  /\ \E r \in {run_info_cuda_command(Focus, command, fail)} :
       /\ focus' = r.focus
       /\ current_context' = r.current_context
       /\ calls' = <<<<"run_info_cuda_command", command>>>> \o r.calls
       /\ error' = r.error
  /\ UNCHANGED <<attach_state, auto_breakpoints, sequence, kernel_ready_sent,
                 modules, qvars, ivars>>
  /\ UNCHANGED <<cuda_system_info, contexts, kernels, options, cuda_clock,
                 hw, api, exception_state_reads>>
  /\ UNCHANGED nvars

\* The info commands from any focus, on devices stopped in any of the states
\* the debug API reports, the current context being that of the ELF image
\* loaded last.
FocusInit ==
  /\ NotifStart
  /\ supports_tid = TRUE
  /\ SystemStart
  /\ running = <<>>
  /\ rows = <<>>
  /\ hw \in [Devs -> DeviceStates]
  /\ focus \in {CUDA_INVALID_COORDS} \cup ValidCoords
  /\ options = [defer_kernel_launch_notifications |-> FALSE,
                software_preemption |-> FALSE,
                break_on_launch_application |-> FALSE,
                break_on_launch_system |-> FALSE,
                coalescing |-> TRUE]

FocusNext ==
  \/ \E command \in InfoCommands, fail \in 0 .. MaxFail :
       Call_run_info_cuda_command(command, fail)
  \/ \E c \in ContextIds : cuda_event_create_context_any_tid(0, c, 1)
  \/ \E c \in ContextIds : cuda_event_load_elf_image(0, c, c)

\* What the debug API answers for the static descriptors of a device.
NumRegisters == 4
DeviceType == "GF100"
SmType == "sm_20"

\* cuda_system_get_num_devices, the debugger being initialized.
cuda_system_get_num_devices(m) ==
  IF m.sys.num_devices_p THEN Return(m, m.sys.num_devices)
  ELSE Return([ApiCall(m, Api("get_num_devices", <<>>)) EXCEPT
                 !.sys.num_devices = NumDevices,
                 !.sys.num_devices_p = CACHED], NumDevices)

\* device_get_device_type
device_get_device_type(m, d) ==
  LET Get(a) ==
        IF a.sys.dev[d].dev_type_p THEN Return(a, a.sys.dev[d].dev_type)
        ELSE Return([ApiCall(a, Api("get_device_type", <<d>>)) EXCEPT
                       !.sys.dev[d].dev_type = DeviceType,
                       !.sys.dev[d].dev_type_p = CACHED], DeviceType)
  IN Get(cuda_system_get_num_devices(m))

\* device_get_sm_type
device_get_sm_type(m, d) ==
  LET Get(a) ==
        IF a.sys.dev[d].sm_type_p THEN Return(a, a.sys.dev[d].sm_type)
        ELSE Return([ApiCall(a, Api("get_sm_type", <<d>>)) EXCEPT
                       !.sys.dev[d].sm_type = SmType,
                       !.sys.dev[d].sm_type_p = CACHED], SmType)
  IN Get(cuda_system_get_num_devices(m))

\* device_get_num_registers
device_get_num_registers(m, d) ==
  LET Get(a) ==
        IF a.sys.dev[d].num_registers_p
        THEN Return(a, a.sys.dev[d].num_registers)
        ELSE Return([ApiCall(a, Api("get_num_registers", <<d>>)) EXCEPT
                       !.sys.dev[d].num_registers = NumRegisters,
                       !.sys.dev[d].num_registers_p = CACHED], NumRegisters)
  IN Get(cuda_system_get_num_devices(m))

Call_sm_get_valid_warps_mask(d, s) ==
  /\ s \in Sms
  /\ Call(sm_get_valid_warps_mask(Machine, d, s))

Call_sm_get_broken_warps_mask(d, s) ==
  /\ s \in Sms
  /\ Call(sm_get_broken_warps_mask(Machine, d, s))

Call_warp_get_grid_id(d, s, w) ==
  /\ w \in Warps
  /\ Call(warp_get_grid_id(Machine, d, s, w))

Call_cuda_system_get_num_devices ==
  /\ cuda_system_info.num_devices_p
  /\ Call(cuda_system_get_num_devices(Machine))

\* The inner loop of device_get_active_sms_mask, over the warps of SM s from
\* warp w on: the bit of the SM is set at its first valid warp.
RECURSIVE device_get_active_sms_mask_warps(_, _, _, _, _)
device_get_active_sms_mask_warps(m, d, s, w, mask) ==
  LET Valid(v) ==
        IF v.ret THEN Return(v, SetBit(mask, s))
        ELSE device_get_active_sms_mask_warps(v, d, s, w + 1, mask)
      Test(c) ==
        IF w < c.ret THEN Valid(warp_is_valid(c, d, s, w))
        ELSE Return(c, mask)
  IN Test(device_get_num_warps(m, d))

\* The outer loop of device_get_active_sms_mask, over the SMs from SM s on.
RECURSIVE device_get_active_sms_mask_sms(_, _, _, _)
device_get_active_sms_mask_sms(m, d, s, mask) ==
  LET Next(r) == device_get_active_sms_mask_sms(r, d, s + 1, r.ret)
      Test(c) ==
        IF s < c.ret
        THEN Next(device_get_active_sms_mask_warps(c, d, s, 0, mask))
        ELSE Return(c, mask)
  IN Test(device_get_num_sms(m, d))

\* device_get_active_sms_mask
device_get_active_sms_mask(m, d) ==
  device_get_active_sms_mask_sms(cuda_system_get_num_devices(m), d, 0, 0)

\* The body of the loop of cuda_info_devices_build for device d: the row of
\* the device is filled from the getters of the device.
cuda_info_devices_build_device(m, d) ==
  device_get_active_sms_mask(
    device_get_num_registers(
      device_get_num_lanes(
        device_get_num_warps(
          device_get_num_sms(
            device_get_sm_type(
              device_get_device_type(m, d), d), d), d), d), d), d)

Call_cuda_info_devices_build_device(d) ==
  /\ d \in Devs
  /\ Call(cuda_info_devices_build_device(Machine, d))

\* The getters of the state mirror called, in any order and any number of
\* times, between the suspensions, resumes and single steps of the first
\* device: the devices start idle with no context, the first device is found
\* idle or at a breakpoint after a resume_device, the warp in focus is the last warp of
\* its last SM.
HitInit ==
  /\ NotifStart
  /\ supports_tid = TRUE
  /\ SystemInit
  /\ focus = LastWarp
  /\ hw = [d \in Devs |-> "idle"]
  /\ options = [defer_kernel_launch_notifications |-> FALSE,
                software_preemption |-> FALSE,
                break_on_launch_application |-> FALSE,
                break_on_launch_system |-> FALSE,
                coalescing |-> TRUE]

HitNext ==
  LET d == focus.dev
      s == focus.sm
      w == focus.wp
      l == focus.ln
  IN \/ cuda_event_create_context(d, 1, 1)
     \/ Call_device_suspend(d)
     \/ Call_device_resume(d, {"idle", "breakpoint"})
     \/ \E mask \in SteppedMasks(d, s, w) : Call_warp_single_step(d, s, w, mask)
     \/ Call_sm_get_valid_warps_mask(d, s)
     \/ Call_sm_get_broken_warps_mask(d, s)
     \/ Call_warp_get_grid_id(d, s, w)
     \/ Call_warp_get_block_idx(d, s, w)
     \/ Call_warp_get_valid_lanes_mask(d, s, w)
     \/ Call_warp_get_active_lanes_mask(d, s, w)
     \/ Call_lane_get_thread_idx(d, s, w, l)
     \/ Call_lane_get_exception(d, s, w, l)
     \/ Call_cuda_system_get_num_devices
     \/ Call_cuda_info_devices_build_device(d)

\* The default filter each info sub-command hands to cuda_build_filter:
\* CUDA_WILDCARD_COORDS with the fields of current set to CUDA_CURRENT.
DefaultFilterWith(current) ==
  [f \in DOMAIN CUDA_WILDCARD_COORDS |->
     IF f \in current THEN CUDA_CURRENT ELSE CUDA_WILDCARD_COORDS[f]]

default_filter(info) ==
  CASE info = "devices" -> DefaultFilterWith({})
    [] info = "sms"     -> DefaultFilterWith({"dev"})
    [] info = "warps"   -> DefaultFilterWith({"dev", "sm"})
    [] info = "lanes"   -> DefaultFilterWith({"dev", "sm", "wp"})
    [] info = "kernels" -> DefaultFilterWith({})
    [] info = "blocks"  -> DefaultFilterWith({"kernelId"})
    [] info = "threads" -> DefaultFilterWith({"kernelId"})

\* cuda_build_filter without the branch that copies the default filter.
cuda_build_filter_ignores_default(filter_string, default, current) ==
  cuda_coords_evaluate_current(
    cuda_parser_result_to_coords(filter_string, CUDA_WILDCARD_COORDS, 1),
    current)

\* cuda_build_filter: filter_string is the list of the requests the parser
\* found in the filter string, empty for a string that is NULL or empty;
\* default is the default filter, <<>> when there is none; current is the
\* current focus. cuda_coords_check_fully_defined is called with nothing
\* required.
cuda_build_filter(filter_string, default, current) ==
  cuda_coords_evaluate_current(
    IF filter_string # <<>>
    THEN cuda_parser_result_to_coords(filter_string, CUDA_WILDCARD_COORDS, 1)
    ELSE IF DOMAIN default # {} THEN default
    ELSE CUDA_WILDCARD_COORDS,
    current)

\* The filter strings of the user: none, or at most MaxSelectors selectors.
MaxSelectors == 1

FilterStrings == {<<>>} \cup {c \in Commands : Len(c) <= MaxSelectors}

\* An info sub-command builds its filter from the filter string of the user.
Call_cuda_build_filter(command, filter_string) ==
  /\ command \in InfoCommands
  /\ rows' = [command |-> command, filter_string |-> filter_string,
              filter |-> cuda_build_filter(filter_string,
                                           default_filter(command), focus)]
  /\ UNCHANGED <<attach_state, current_context, auto_breakpoints, error,
                 sequence, kernel_ready_sent, modules, calls, qvars, running>>
  /\ UNCHANGED <<cuda_system_info, contexts, kernels, options, cuda_clock,
                 focus, hw, api, exception_state_reads>>
  /\ UNCHANGED nvars

\* The filters of the info sub-commands, built with the focus on any valid
\* lane or with no focus, the first device stopped in any of the states the
\* debug API reports and the other devices at a breakpoint.
FilterInit ==
  /\ NotifStart
  /\ supports_tid = TRUE
  /\ SystemStart
  /\ running = <<>>
  /\ rows = <<>>
  /\ hw \in {h \in [Devs -> DeviceStates] :
               \A d \in Devs : d # 0 => h[d] = "breakpoint"}
  /\ focus \in {CUDA_INVALID_COORDS} \cup ValidCoords
  /\ options = [defer_kernel_launch_notifications |-> FALSE,
                software_preemption |-> FALSE,
                break_on_launch_application |-> FALSE,
                break_on_launch_system |-> FALSE,
                coalescing |-> TRUE]

FilterNext ==
  \E command \in InfoCommands, filter_string \in FilterStrings :
    Call_cuda_build_filter(command, filter_string)

\* The kernel registry read through warp_get_kernel with the launch
\* notifications deferred or not: the first device is stopped by an
\* exception, KERNEL_READY events of grids 1 and 2 arrive from a valid
\* thread, the debugger asks for the kernel of any warp of the device, two
\* warps of an SM running the same grid, and the device is invalidated by
\* device_resume in between.
LazyInit ==
  /\ NotifStart
  /\ supports_tid = TRUE
  /\ SystemInit
  /\ focus = FirstLane
  /\ hw = [d \in Devs |-> IF d = focus.dev THEN "exception" ELSE "idle"]
  /\ options \in [defer_kernel_launch_notifications : BOOLEAN,
                  software_preemption : {FALSE},
                  break_on_launch_application : {TRUE},
                  break_on_launch_system : {FALSE},
                  coalescing : {TRUE}]

LazyNext ==
  LET d == focus.dev
  IN \/ \E g \in 1 .. 2 : cuda_event_kernel_ready(d, 1, g, 1, "APPLICATION")
     \/ \E s \in Sms, w \in Warps : Call_warp_get_kernel(d, s, w)
     \/ Call_device_resume(d, {hw[d]})

\* What stands for the result of a function whose gdb_assert has failed: no
\* tick of the clock.
AssertionFailed == -1

\* warp_get_timestamp
warp_get_timestamp(m, d, s, w) ==
  LET Get(v) ==
        IF v.ret /\ v.sys.dev[d].sm[s].wp[w].timestamp_p
        THEN Return(v, v.sys.dev[d].sm[s].wp[w].timestamp)
        ELSE Return(v, AssertionFailed)
  IN Get(warp_is_valid(AssertWp(m, d), d, s, w))

\* The warps of SM s of device d whose bit is set in mask, in the order of
\* the warps.
WarpsOf(d, s, mask) ==
  SelectSeq([w \in 1 .. NumWarps |-> [dev |-> d, sm |-> s, wp |-> w - 1]],
            LAMBDA x : Bit(mask, x.wp))

\* The loop of the iterator over the SMs of device d, from SM s on.
RECURSIVE cuda_iterator_create_warps_sms(_, _, _, _)
cuda_iterator_create_warps_sms(m, d, s, list) ==
  IF s >= NumSms THEN Return(m, list)
  ELSE LET Select(v) ==
             IF v.ret = 0
             THEN cuda_iterator_create_warps_sms(v, d, s + 1, list)
             ELSE cuda_iterator_create_warps_sms(
                    v, d, s + 1, list \o WarpsOf(d, s, v.ret))
       IN Select(sm_get_valid_warps_mask(AssertWp(m, d), d, s))

\* cuda_iterator_create (CUDA_ITERATOR_TYPE_WARPS, CUDA_WILDCARD_COORDS,
\* CUDA_SELECT_VALID), from device d on: the warps for which warp_is_valid
\* holds, in the order in which they are visited, physical-major.
RECURSIVE cuda_iterator_create_warps(_, _, _)
cuda_iterator_create_warps(m, d, list) ==
  IF d >= NumDevices THEN Return(m, list)
  ELSE LET Device(r) == cuda_iterator_create_warps(r, d + 1, r.ret)
       IN Device(cuda_iterator_create_warps_sms(m, d, 0, list))

\* The loop of cuda_system_is_broken over the warps of the iterator itr, from
\* warp i on. The result is <<broken>> when the function returns, and <<>>
\* when the assertion of warp_get_timestamp fails before it does.
RECURSIVE cuda_system_is_broken_loop(_, _, _, _)
cuda_system_is_broken_loop(m, itr, i, clock) ==
  IF i > Len(itr) THEN Return(m, <<FALSE>>)
  ELSE LET Broken(b) ==
             IF ~b.ret
             THEN cuda_system_is_broken_loop(b, itr, i + 1, clock)
             ELSE Return(b, <<TRUE>>)
           Stamp(t, c) ==
             IF t.ret = AssertionFailed THEN Return(t, <<>>)
             ELSE IF t.ret < clock
             THEN cuda_system_is_broken_loop(t, itr, i + 1, clock)
             ELSE Broken(warp_is_broken(t, c.dev, c.sm, c.wp))
           Visit(c) == Stamp(warp_get_timestamp(m, c.dev, c.sm, c.wp), c)
       IN Visit(itr[i])

\* cuda_system_is_broken looking at every valid warp, whatever its timestamp.
cuda_system_is_broken_any_timestamp(m, clock) ==
  LET Loop(itr) == cuda_system_is_broken_loop(itr, itr.ret, 1, 0)
  IN Loop(cuda_iterator_create_warps(m, 0, <<>>))

\* cuda_system_is_broken
cuda_system_is_broken(m, clock) ==
  LET Loop(itr) == cuda_system_is_broken_loop(itr, itr.ret, 1, clock)
  IN Loop(cuda_iterator_create_warps(m, 0, <<>>))

\* The clock runs up to MaxClock.
MaxClock == 1

\* cuda_clock_increment, once per cycle of event drain and resume.
cuda_clock_increment ==
  /\ cuda_clock < MaxClock
  /\ cuda_clock' = cuda_clock + 1
  /\ UNCHANGED <<cuda_system_info, contexts, kernels, options, focus, hw, api,
                 exception_state_reads>>
  /\ UNCHANGED evars
  /\ UNCHANGED nvars

\* A call of cuda_system_is_broken: calls records the clock given, what the
\* call returned, what the device was at and the warps of the SM in focus
\* stamped before the clock.
Call_cuda_system_is_broken(clock) ==
  /\ clock \in 0 .. MaxClock
  /\ \E r \in {cuda_system_is_broken(Machine, clock)} :
       /\ Commit(r)
       /\ calls' = <<[op |-> "cuda_system_is_broken", clock |-> clock,
                      ret |-> r.ret,
                      hw |-> hw[focus.dev],
                      earlier |-> {w \in Warps :
                                     LET wp == r.sys.dev[focus.dev]
                                                 .sm[focus.sm].wp[w]
                                     IN /\ wp.timestamp_p
                                        /\ wp.timestamp < clock}]>>
  /\ exception_state_reads' = ReadsAfter(api')
  /\ UNCHANGED <<hw, contexts, options, cuda_clock, focus>>
  /\ UNCHANGED <<attach_state, current_context, auto_breakpoints, error,
                 sequence, kernel_ready_sent, modules, qvars, ivars>>
  /\ UNCHANGED nvars

Call_lane_is_valid_of(d, s, w, l) ==
  /\ l \in Lanes
  /\ Call(lane_is_valid(Machine, d, s, w, l))

Call_warp_get_valid_lanes_mask_of(d, s, w) ==
  /\ w \in Warps
  /\ Call(warp_get_valid_lanes_mask(Machine, d, s, w))

\* The timestamps of the warps and lanes of the last SM of the first device
\* over its stops: the device starts idle, each resume_device sets it running,
\* to be found idle or with every warp of its last SM at a breakpoint, a warp
\* is single-stepped, the clock ticks, and the debugger reads the valid lanes
\* of the warps of the SM, asks whether the lane in focus is valid and
\* whether the system is broken since a given tick.
ClockInit ==
  /\ NotifStart
  /\ supports_tid = TRUE
  /\ SystemInit
  /\ focus = LastWarp
  /\ hw = [d \in Devs |-> "idle"]
  /\ options = [defer_kernel_launch_notifications |-> FALSE,
                software_preemption |-> FALSE,
                break_on_launch_application |-> FALSE,
                break_on_launch_system |-> FALSE,
                coalescing |-> TRUE]

ClockNext ==
  LET d == focus.dev
      s == focus.sm
  IN \/ cuda_event_create_context(d, 1, 1)
     \/ Call_device_suspend(d)
     \/ Call_device_resume(d, {"idle", "breakpoints"})
     \/ cuda_clock_increment
     \/ \E w \in Warps :
          \E mask \in {m \in SteppedMasks(d, s, w) : m = 2 ^ w} :
            Call_warp_single_step(d, s, w, mask)
     \/ \E w \in Warps : Call_warp_get_valid_lanes_mask_of(d, s, w)
     \/ Call_lane_is_valid_of(d, s, focus.wp, focus.ln)
     \/ \E clock \in 0 .. MaxClock : Call_cuda_system_is_broken(clock)


\* A call of cuda_system_initialize: the mirror is zeroed, the number of
\* devices is read for the loop over the devices, and device_initialize gives
\* every device a new context registry.
Call_cuda_system_initialize ==
  /\ cuda_system_info' = cuda_system_initialize
  /\ contexts' = [d \in Devs |-> contexts_new]
  /\ api' = <<Api("get_num_devices", <<>>)>>
  /\ UNCHANGED <<kernels, options, cuda_clock, focus, hw,
                 exception_state_reads>>
  /\ UNCHANGED evars
  /\ UNCHANGED nvars

\* Suspension and resumption of the devices as contexts are created on them
\* and the debugger is initialized anew.
ResumeNext ==
  \/ \E d \in Devs, c \in ContextIds, t \in Tids :
       cuda_event_create_context(d, c, t)
  \/ \E d \in Devs : Call_device_suspend(d)
  \/ \E d \in Devs : Call_device_resume(d, DeviceStates)
  \/ Call_cuda_system_initialize

(***************************************************************************)
(*                            Specifications                               *)
(***************************************************************************)

\* The notification channel between the two threads, on a platform that
\* can signal a given host thread or on one that cannot, the devices idle.
NotifInit ==
  /\ NotifStart
  /\ supports_tid \in BOOLEAN
  /\ SystemInit
  /\ hw = [d \in Devs |-> "idle"]
  /\ options = [defer_kernel_launch_notifications |-> FALSE,
                software_preemption |-> FALSE,
                break_on_launch_application |-> FALSE,
                break_on_launch_system |-> FALSE,
                coalescing |-> TRUE]
  /\ focus = FirstLane

NotifSpec == NotifInit /\ [][NotifNext]_vars

SuspendSpec == SuspendInit /\ [][SuspendNext]_vars

CacheSpec == CacheInit /\ [][CacheNext]_vars

PcSpec == PcInit /\ [][PcNext]_vars

MaskSpec == MaskInit /\ [][MaskNext]_vars

StepSpec == StepInit /\ [][StepNext]_vars

KernelSpec == KernelInit /\ [][KernelNext]_vars

EventSpec == EventInit /\ [][EventNext]_vars

LaunchSpec == LaunchInit /\ [][LaunchNext]_vars

DrainSpec == DrainInit /\ [][DrainNext]_vars

SwitchSpec == SwitchInit /\ [][SwitchNext]_vars

InfoSpec == InfoInit /\ [][InfoNext]_vars

FocusSpec == FocusInit /\ [][FocusNext]_vars

HitSpec == HitInit /\ [][HitNext]_vars

FilterSpec == FilterInit /\ [][FilterNext]_vars

LazySpec == LazyInit /\ [][LazyNext]_vars

ClockSpec == ClockInit /\ [][ClockNext]_vars

ResumeSpec == SuspendInit /\ [][ResumeNext]_vars

(***************************************************************************)
(*                 Properties of the notification channel                  *)
(***************************************************************************)

\* The steps that are the critical sections of notify, accept, analyze and
\* mark_consumed.
NotifyStep       == pc.cb = "notify" /\ pc'.cb = "idle"
AcceptStep       == pc.main = "accept" /\ pc'.main = "idle"
AnalyzeStep      == pc.main = "analyze" /\ pc'.main = "idle"
MarkConsumedStep == pc.main = "mark_consumed" /\ pc'.main = "idle"

\* C1: in every reachable state of the notification record, under every
\* interleaving of the callback thread with the main thread, sent and
\* pending_send are never both true and received is never true while sent is
\* false.
C1_LegalStates ==
  /\ ~(cuda_notification_info.sent /\ cuda_notification_info.pending_send)
  /\ ~(~cuda_notification_info.sent /\ cuda_notification_info.received)

\* C2: a thread that is inside a public operation of the notification channel
\* holds the notification mutex, so no field of the record is read or written
\* outside the mutex.
C2_MutexHeld ==
  \A t \in {"cb", "main"} : pc[t] # "idle" => mutex = t

\* C3: a notify with a non-timeout payload that arrives while sent is true
\* calls no send, delivers no signal and sets aliased_event, leaving every
\* other field of the record as it was, whether or not the earlier notification
\* was received.
C3_AliasedNotify ==
  [][(NotifyStep /\ ~call.cb.timeout /\ cuda_notification_info.sent)
       => /\ cuda_notification_info' =
               [cuda_notification_info EXCEPT !.aliased_event = TRUE]
          /\ ~last'.send
          /\ last'.signal = 0]_vars

\* C3 witness: a non-timeout notify has been aliased over a notification that
\* was already received.
C3_Witness ==
  /\ last.op = "notify" /\ last.branch = "aliased" /\ ~last.data.timeout
  /\ cuda_notification_info.sent
  /\ cuda_notification_info.received
  /\ cuda_notification_info.aliased_event

\* The notify half of C4: a non-timeout notify that arrives while blocked is
\* set and the record is ready calls no send and buffers its payload.
C4_NotifyBuffers ==
  (NotifyStep /\ ~call.cb.timeout /\ cuda_notification_info.blocked
     /\ ~cuda_notification_info.sent /\ ~cuda_notification_info.pending_send)
    => /\ cuda_notification_info' =
            [cuda_notification_info
             EXCEPT !.pending_send = TRUE, !.pending_send_data = call.cb]
       /\ ~last'.send

\* The accept half of C4, but for sent: accept with a payload buffered calls
\* send on that payload and leaves blocked and pending_send false.
C4_AcceptSends ==
  (AcceptStep /\ cuda_notification_info.pending_send)
    => /\ last'.send
       /\ last'.data = cuda_notification_info.pending_send_data
       /\ ~cuda_notification_info'.blocked
       /\ ~cuda_notification_info'.pending_send

C5_Analyze ==
  [][AnalyzeStep
       => cuda_notification_info' =
            IF /\ cuda_notification_info.sent
               /\ cuda_notification_info.tid = call.main.tid
               /\ call.main.kind = "STOPPED"
               /\ call.main.sig = "TRAP"
               /\ ~call.main.trap_expected
              THEN [cuda_notification_info EXCEPT !.received = TRUE]
              ELSE cuda_notification_info]_vars

\* C5 witness: analyze has marked a sent notification received.
C5_Witness ==
  /\ last.op = "analyze" /\ last.branch = "received"
  /\ cuda_notification_info.sent
  /\ cuda_notification_info.received

\* C6 as stated: after mark_consumed returns, sent is false, received is false
\* and tid is 0.
C6_Original ==
  (last.op = "mark_consumed" /\ pc.main = "idle")
    => /\ ~cuda_notification_info.sent
       /\ ~cuda_notification_info.received
       /\ cuda_notification_info.tid = 0

\* C6 as amended: mark_consumed called with received true clears sent, received
\* and tid and leaves the record ready, so that a non-timeout notify issued
\* next while unblocked calls send; called with received false it changes no
\* field.
C6_MarkConsumed ==
  [][/\ MarkConsumedStep
          => IF cuda_notification_info.received
               THEN /\ cuda_notification_info' =
                         [cuda_notification_info
                          EXCEPT !.sent = FALSE, !.received = FALSE, !.tid = 0]
                    /\ ~cuda_notification_info'.pending_send
               ELSE cuda_notification_info' = cuda_notification_info
     /\ (NotifyStep /\ ~call.cb.timeout /\ ~cuda_notification_info.sent
           /\ ~cuda_notification_info.pending_send
           /\ ~cuda_notification_info.blocked)
          => (last'.send /\ last'.data = call.cb)]_vars

\* C6 witness: mark_consumed has consumed a received notification.
C6_Witness ==
  /\ last.op = "mark_consumed" /\ last.branch = "consumed"
  /\ ~cuda_notification_info.sent
  /\ ~cuda_notification_info.received
  /\ cuda_notification_info.tid = 0

suspended_devices_mask == cuda_system_info.suspended_devices_mask

\* Every present flag that caches a debug-API value is false in the subtree of
\* device d of mirror sys: the two of the device, the two of every SM, those
\* of every warp and those of every lane.
CachesCleared(sys, d) ==
  /\ ~sys.dev[d].valid_p
  /\ ~sys.dev[d].filter_exception_state_p
  /\ \A s \in Sms :
       /\ ~sys.dev[d].sm[s].valid_warps_mask_p
       /\ ~sys.dev[d].sm[s].broken_warps_mask_p
       /\ \A w \in Warps :
            /\ ~sys.dev[d].sm[s].wp[w].valid_p
            /\ ~sys.dev[d].sm[s].wp[w].broken_p
            /\ ~sys.dev[d].sm[s].wp[w].block_idx_p
            /\ ~sys.dev[d].sm[s].wp[w].kernel_p
            /\ ~sys.dev[d].sm[s].wp[w].grid_id_p
            /\ ~sys.dev[d].sm[s].wp[w].valid_lanes_mask_p
            /\ ~sys.dev[d].sm[s].wp[w].active_lanes_mask_p
            /\ ~sys.dev[d].sm[s].wp[w].timestamp_p
            /\ \A l \in Lanes :
                 /\ ~sys.dev[d].sm[s].wp[w].ln[l].thread_idx_p
                 /\ ~sys.dev[d].sm[s].wp[w].ln[l].pc_p
                 /\ ~sys.dev[d].sm[s].wp[w].ln[l].exception_p
                 /\ ~sys.dev[d].sm[s].wp[w].ln[l].virtual_pc_p
                 /\ ~sys.dev[d].sm[s].wp[w].ln[l].timestamp_p

\* Some warp of device d is valid, by what the debug API reports.
SomeWarpValid(d) == \E s \in Sms, w \in Warps : Bit(Hw(d).valid_warps[s], w)

\* The machine record of the operation that follows the one that produced
\* machine m.
Following(m) == [m EXCEPT !.api = <<>>, !.ret = 0]

\* C8 as stated: after device_resume(d) every present flag under d is false
\* and the next device_is_valid(d) reads warp validity from the debug API.
C8_Original ==
  \A d \in Devs :
    LET resumed == device_resume(Machine, d)
        next    == device_is_valid(Following(resumed), d)
    IN /\ CachesCleared(resumed.sys, d)
       /\ CallsOf(next.api, "read_valid_warps") # <<>>

\* C8: after device_resume(d), called in any state, every present flag under
\* d is false: valid_p and filter_exception_state_p of the device, the two
\* mask flags of every SM, every present flag of every warp and of every
\* lane.  The next device_is_valid(d), when d has a context, reads warp
\* validity from the debug API and returns what it read; when d has no
\* context it returns false with no call of the debug API.
C8_ResumeInvalidates ==
  \A d \in Devs :
    LET resumed == device_resume(Machine, d)
        next    == device_is_valid(Following(resumed), d)
    IN /\ CachesCleared(resumed.sys, d)
       /\ IF device_is_any_context_present(d)
          THEN /\ CallsOf(next.api, "read_valid_warps") # <<>>
               /\ next.ret = SomeWarpValid(d)
          ELSE /\ next.api = <<>>
               /\ next.ret = FALSE

\* C8 witness: device_resume has resumed a device that has a context and
\* whose caches held the exception of a lane and the valid warps of an SM;
\* the values are still there, their present flags are false.
C8_Witness ==
  /\ CallsOf(api, "resume_device") = <<Api("resume_device", <<focus.dev>>)>>
  /\ device_is_any_context_present(focus.dev)
  /\ CachesCleared(cuda_system_info, focus.dev)
  /\ cuda_system_info.dev[focus.dev].sm[focus.sm].wp[focus.wp].ln[focus.ln]
       .exception = "LANE_ILLEGAL_ADDRESS"
  /\ cuda_system_info.dev[focus.dev].sm[focus.sm].valid_warps_mask # 0
  /\ cuda_system_info.dev[focus.dev].sm[focus.sm].wp[focus.wp].kernel # 0

\* C9 as stated: every device_resume(d) calls resume_device(d) exactly once
\* and leaves bit d of the suspended-devices mask clear.
C9_Original ==
  \A d \in Devs :
    LET resumed == device_resume(Machine, d)
    IN /\ CallsOf(resumed.api, "resume_device")
            = <<Api("resume_device", <<d>>)>>
       /\ ~Bit(resumed.sys.suspended_devices_mask, d)

\* C9: device_resume(d), called in any state, calls resume_device(d) exactly
\* once when device d is suspended and not at all when it is not; either way
\* bit d of the suspended-devices mask is clear afterwards, dev[d].suspended
\* is false and the bits of the other devices are as they were.
C9_ResumeSuspended ==
  \A d \in Devs :
    LET resumed == device_resume(Machine, d)
    IN /\ CallsOf(resumed.api, "resume_device")
            = IF cuda_system_info.dev[d].suspended
              THEN <<Api("resume_device", <<d>>)>> ELSE <<>>
       /\ ~Bit(resumed.sys.suspended_devices_mask, d)
       /\ ~resumed.sys.dev[d].suspended
       /\ \A e \in Devs \ {d} :
            Bit(resumed.sys.suspended_devices_mask, e)
              = Bit(suspended_devices_mask, e)

\* C9 witness: device_resume has resumed one suspended device while another
\* device stays suspended.
C9_Witness ==
  \E d \in Devs : \E e \in Devs \ {d} :
    /\ CallsOf(api, "resume_device") = <<Api("resume_device", <<d>>)>>
    /\ ~Bit(suspended_devices_mask, d)
    /\ ~cuda_system_info.dev[d].suspended
    /\ Bit(suspended_devices_mask, e)

\* C10: device_suspend(d) on a device with no context calls nothing of the
\* debug API and leaves the mirror, the suspended flag and the
\* suspended-devices mask included, as it was; on a device with a context it
\* calls suspend_device(d) once, sets dev[d].suspended and bit d of the mask,
\* and leaves the bits of the other devices as they were.
C10_Suspend ==
  [][\A d \in Devs :
       Call_device_suspend(d)
         => IF ~device_is_any_context_present(d)
            THEN /\ api' = <<>>
                 /\ cuda_system_info' = cuda_system_info
            ELSE /\ api' = <<Api("suspend_device", <<d>>)>>
                 /\ cuda_system_info'.dev[d].suspended
                 /\ Bit(suspended_devices_mask', d)
                 /\ \A e \in Devs \ {d} :
                      Bit(suspended_devices_mask', e)
                        = Bit(suspended_devices_mask, e)]_vars

\* C10 witness: device_suspend has suspended a device with a context while
\* another device was suspended already, and both bits are set.
C10_Witness ==
  \E d \in Devs : \E e \in Devs \ {d} :
    /\ api = <<Api("suspend_device", <<d>>)>>
    /\ device_is_any_context_present(d)
    /\ cuda_system_info.dev[d].suspended
    /\ Bit(suspended_devices_mask, d)
    /\ Bit(suspended_devices_mask, e)

(***************************************************************************)
(*                     Properties of the lane getters                      *)
(***************************************************************************)

\* Lane l of warp (d, s, w) is one the mirror m reports valid and active.
ValidActiveLane(m, d, s, w, l) ==
  /\ lane_is_valid(m, d, s, w, l).ret
  /\ lane_is_active(m, d, s, w, l).ret

\* What lane_get_pc leaves, called on lane l of the warp in focus: when the
\* lane is active every valid active lane o of the warp has its pc cached with
\* the value returned, and lane_get_pc on o then returns that value without
\* a read_pc; when the lane is divergent the records of the other lanes are
\* as they were.
PcShared(l) ==
  LET d == focus.dev
      s == focus.sm
      w == focus.wp
      Again(q, pc_read) ==
        CallsOf(q.api, "read_pc") = <<>> /\ q.ret = pc_read
      Post(r) ==
        IF lane_is_active(Machine, d, s, w, l).ret
        THEN \A o \in Lanes :
               ValidActiveLane(Following(r), d, s, w, o) =>
                 /\ r.sys.dev[d].sm[s].wp[w].ln[o].pc_p
                 /\ r.sys.dev[d].sm[s].wp[w].ln[o].pc = r.ret
                 /\ Again(lane_get_pc(Following(r), d, s, w, o), r.ret)
        ELSE \A o \in Lanes \ {l} :
               r.sys.dev[d].sm[s].wp[w].ln[o] =
                 cuda_system_info.dev[d].sm[s].wp[w].ln[o]
  IN Post(lane_get_pc(Machine, d, s, w, l))

\* The same of lane_get_virtual_pc, virtual_pc and read_virtual_pc.
VirtualPcShared(l) ==
  LET d == focus.dev
      s == focus.sm
      w == focus.wp
      Again(q, virtual_pc) ==
        CallsOf(q.api, "read_virtual_pc") = <<>> /\ q.ret = virtual_pc
      Post(r) ==
        IF lane_is_active(Machine, d, s, w, l).ret
        THEN \A o \in Lanes :
               ValidActiveLane(Following(r), d, s, w, o) =>
                 /\ r.sys.dev[d].sm[s].wp[w].ln[o].virtual_pc_p
                 /\ r.sys.dev[d].sm[s].wp[w].ln[o].virtual_pc = r.ret
                 /\ Again(lane_get_virtual_pc(Following(r), d, s, w, o),
                          r.ret)
        ELSE \A o \in Lanes \ {l} :
               r.sys.dev[d].sm[s].wp[w].ln[o] =
                 cuda_system_info.dev[d].sm[s].wp[w].ln[o]
  IN Post(lane_get_virtual_pc(Machine, d, s, w, l))

\* C11: in every state, lane_get_pc (lane_get_virtual_pc) called on a valid
\* active lane of the warp leaves the pc (virtual_pc) of every valid active
\* lane of the warp cached with the value it returns, and a read of the pc of
\* any of these lanes that follows makes no read_pc (read_virtual_pc) call
\* and returns the same value; called on a valid divergent lane, it leaves
\* the record of every other lane of the warp as it was.
C11_SharedPc ==
  \A l \in Lanes :
    AssertValidLane(Machine, focus.dev, focus.sm, focus.wp, l).ret =>
      PcShared(l) /\ VirtualPcShared(l)

\* C11 has happened: one read_pc, made for lane 0 of a warp whose lanes are
\* all active, has cached the same pc for every lane of the warp.
C11_Witness ==
  /\ hw[focus.dev] = "exception"
  /\ api = <<Api("read_pc", <<focus.dev, focus.sm, focus.wp, 0>>)>>
  /\ \A l \in Lanes :
       /\ cuda_system_info.dev[focus.dev].sm[focus.sm].wp[focus.wp].ln[l].pc_p
       /\ cuda_system_info.dev[focus.dev].sm[focus.sm].wp[focus.wp].ln[l].pc
            = Hw(focus.dev).pc[focus.sm][focus.wp][0]

(***************************************************************************)
(*                 Properties of the warp and lane masks                   *)
(***************************************************************************)

\* Every bit of mask a is a bit of mask b.
MaskSubset(a, b) ==
  \A i \in 0 .. NumWarps + NumLanes : Bit(a, i) => Bit(b, i)

\* C12: in every state, every warp whose valid-lanes mask and active-lanes
\* mask are both cached has its active_lanes_mask within its
\* valid_lanes_mask, the warps that are not valid included.
C12_ActiveWithinValid ==
  \A d \in Devs, s \in Sms, w \in Warps :
    LET wp == cuda_system_info.dev[d].sm[s].wp[w]
    IN (wp.valid_lanes_mask_p /\ wp.active_lanes_mask_p) =>
         MaskSubset(wp.active_lanes_mask, wp.valid_lanes_mask)

\* C13: in every state, every SM whose valid-warps mask and broken-warps mask
\* are both cached has its broken_warps_mask within its valid_warps_mask, and
\* warp_is_broken returns true of no warp of which warp_is_valid returns
\* false.
C13_BrokenWithinValid ==
  \A d \in Devs, s \in Sms :
    LET sm == cuda_system_info.dev[d].sm[s]
        Valid(r, w) == r.ret => warp_is_valid(Following(r), d, s, w).ret
    IN /\ (sm.valid_warps_mask_p /\ sm.broken_warps_mask_p) =>
            MaskSubset(sm.broken_warps_mask, sm.valid_warps_mask)
       /\ \A w \in Warps : Valid(warp_is_broken(Machine, d, s, w), w)

\* C13 has happened: the two masks of an SM are cached, a warp is in both,
\* and the device has been resumed and suspended before.
C13_Witness ==
  \E d \in Devs, s \in Sms, w \in Warps :
    /\ cuda_system_info.dev[d].sm[s].valid_warps_mask_p
    /\ cuda_system_info.dev[d].sm[s].broken_warps_mask_p
    /\ Bit(cuda_system_info.dev[d].sm[s].broken_warps_mask, w)
    /\ Bit(cuda_system_info.dev[d].sm[s].valid_warps_mask, w)
    /\ cuda_system_info.dev[d].suspended

(***************************************************************************)
(*                      Properties of warp_single_step                     *)
(***************************************************************************)

\* Every mask of warps of an SM.
WarpMasks == 0 .. AllBits(NumWarps)

\* C14: in every state, warp_single_step(d, s, w) leaves every present flag
\* of the subtree of device d false when software_preemption is on, and when
\* it is off and the mask the debug API returns has a warp other than w.
C14_StepInvalidatesDevice ==
  \A d \in Devs, s \in Sms, w \in Warps, mask \in WarpMasks :
    (options.software_preemption \/ ClearBit(mask, w) # 0) =>
      CachesCleared(warp_single_step(Machine, d, s, w, mask).sys, d)

\* C14 has happened: with software preemption off, a single step whose mask
\* has another warp than the one stepped has left no present flag set under
\* a device found valid before.
C14_Witness ==
  \E d \in Devs, s \in Sms, w \in Warps, mask \in WarpMasks :
    /\ ~options.software_preemption
    /\ ClearBit(mask, w) # 0
    /\ api = <<Api("single_step_warp", <<d, s, w, mask>>)>>
    /\ cuda_system_info.dev[d].valid
    /\ CachesCleared(cuda_system_info, d)

\* Every present flag of warp w of SM s of device d and of its lanes is false
\* in mirror sys.
WarpCleared(sys, d, s, w) ==
  /\ ~sys.dev[d].sm[s].wp[w].valid_p
  /\ ~sys.dev[d].sm[s].wp[w].broken_p
  /\ ~sys.dev[d].sm[s].wp[w].block_idx_p
  /\ ~sys.dev[d].sm[s].wp[w].kernel_p
  /\ ~sys.dev[d].sm[s].wp[w].grid_id_p
  /\ ~sys.dev[d].sm[s].wp[w].valid_lanes_mask_p
  /\ ~sys.dev[d].sm[s].wp[w].active_lanes_mask_p
  /\ ~sys.dev[d].sm[s].wp[w].timestamp_p
  /\ \A l \in Lanes :
       /\ ~sys.dev[d].sm[s].wp[w].ln[l].thread_idx_p
       /\ ~sys.dev[d].sm[s].wp[w].ln[l].pc_p
       /\ ~sys.dev[d].sm[s].wp[w].ln[l].exception_p
       /\ ~sys.dev[d].sm[s].wp[w].ln[l].virtual_pc_p
       /\ ~sys.dev[d].sm[s].wp[w].ln[l].timestamp_p

\* Mirror sys differs from the mirror of the state at most in warp w of SM s
\* of device d, in the two mask flags of that SM, and in the static
\* descriptors of the device that the assertions latch.
OnlyWarpTouched(sys, d, s, w) ==
  /\ \A e \in Devs \ {d} : sys.dev[e] = cuda_system_info.dev[e]
  /\ \A t \in Sms \ {s} : sys.dev[d].sm[t] = cuda_system_info.dev[d].sm[t]
  /\ \A v \in Warps \ {w} :
       sys.dev[d].sm[s].wp[v] = cuda_system_info.dev[d].sm[s].wp[v]
  /\ sys.dev[d].sm[s].valid_warps_mask =
       cuda_system_info.dev[d].sm[s].valid_warps_mask
  /\ sys.dev[d].sm[s].broken_warps_mask =
       cuda_system_info.dev[d].sm[s].broken_warps_mask
  /\ sys.dev[d].valid_p = cuda_system_info.dev[d].valid_p
  /\ sys.dev[d].valid = cuda_system_info.dev[d].valid
  /\ sys.dev[d].filter_exception_state_p =
       cuda_system_info.dev[d].filter_exception_state_p
  /\ sys.dev[d].suspended = cuda_system_info.dev[d].suspended
  /\ sys.suspended_devices_mask = cuda_system_info.suspended_devices_mask

\* C15: in every state with software_preemption off, warp_single_step(d, s, w)
\* with a returned mask of w alone leaves every present flag of warp w and of
\* its lanes false and the two mask flags of SM s false, and leaves every
\* other warp of the SM, every other SM of the device, the two flags of the
\* device and every other device as they were.
C15_StepInvalidatesWarpOnly ==
  \A d \in Devs, s \in Sms, w \in Warps :
    LET Post(r) ==
          /\ WarpCleared(r.sys, d, s, w)
          /\ ~r.sys.dev[d].sm[s].valid_warps_mask_p
          /\ ~r.sys.dev[d].sm[s].broken_warps_mask_p
          /\ OnlyWarpTouched(r.sys, d, s, w)
    IN ~options.software_preemption =>
         Post(warp_single_step(Machine, d, s, w, 2 ^ w))

\* C15 has happened: with software preemption off, a single step whose mask
\* is the stepped warp alone has cleared the flags of the warp and of the SM,
\* and the device's own validity and that of another device are still cached.
C15_Witness ==
  \E d \in Devs, s \in Sms, w \in Warps :
    /\ ~options.software_preemption
    /\ api = <<Api("single_step_warp", <<d, s, w, 2 ^ w>>)>>
    /\ WarpCleared(cuda_system_info, d, s, w)
    /\ ~cuda_system_info.dev[d].sm[s].valid_warps_mask_p
    /\ cuda_system_info.dev[d].valid_p
    /\ \E t \in Sms \ {s} : cuda_system_info.dev[d].sm[t].valid_warps_mask_p
    /\ \E e \in Devs \ {d} : cuda_system_info.dev[e].valid_p

(***************************************************************************)
(*                      Properties of device_is_valid                      *)
(***************************************************************************)

\* C16: in every state, device_is_valid(d) returns true if and only if
\* warp_is_valid(d, s, w), called in that state, returns true for some warp
\* of d.
C16_DeviceValidIffWarpValid ==
  \A d \in Devs :
    device_is_valid(Machine, d).ret <=>
      \E s \in Sms, w \in Warps : warp_is_valid(Machine, d, s, w).ret

(***************************************************************************)
(*               Properties of device_filter_exception_state               *)
(***************************************************************************)

\* lane_get_exception on every valid lane of every SM of device d that is not
\* in the bitmap sm_mask returns NONE and makes no read_lane_exception call,
\* in the state of machine m.
FilteredLanesQuiet(m, d, sm_mask) ==
  \A s \in Sms, w \in Warps, l \in Lanes :
    LET Quiet(r) ==
          r.ret = "NONE" /\ CallsOf(r.api, "read_lane_exception") = <<>>
    IN (~Bit(sm_mask, s) /\ AssertValidLane(m, d, s, w, l).ret) =>
         Quiet(lane_get_exception(m, d, s, w, l))

\* C17 as stated: since its last device_resume a device has had its exception
\* bitmap read at most once, and once it has been read every valid lane of an
\* SM that was not in it has its exception returned as NONE without a
\* read_lane_exception.
C17_Original ==
  \A d \in Devs :
    /\ Len(exception_state_reads[d]) <= 1
    /\ exception_state_reads[d] # <<>> =>
         FilteredLanesQuiet(Machine, d, exception_state_reads[d][1])

\* What device_filter_exception_state(d) does in the state: nothing when the
\* device has no context or filter_exception_state_p is set; otherwise one
\* read of the bitmap, after which the flag is set, a second call does
\* nothing, and the valid lanes of the SMs that are not in the bitmap have
\* NONE returned without a read_lane_exception.
FilterPost(d) ==
  LET Post(f) ==
        IF \/ ~device_is_any_context_present(d)
           \/ cuda_system_info.dev[d].filter_exception_state_p
        THEN f.api = <<>> /\ f.sys = cuda_system_info
        ELSE /\ Len(CallsOf(f.api, "read_device_exception_state")) = 1
             /\ f.sys.dev[d].filter_exception_state_p
             /\ device_filter_exception_state(Following(f), d) = Following(f)
             /\ FilteredLanesQuiet(Following(f), d, Hw(d).exception_sms)
  IN Post(device_filter_exception_state(Machine, d))

\* A step that clears filter_exception_state_p of device d leaves every
\* present flag under d false, and the bitmap is read only by a step that
\* sets the flag.
FilterLatch(d) ==
  /\ (/\ cuda_system_info.dev[d].filter_exception_state_p
      /\ ~cuda_system_info'.dev[d].filter_exception_state_p)
       => CachesCleared(cuda_system_info', d)
  /\ Len(exception_state_reads'[d]) > Len(exception_state_reads[d])
       => /\ ~cuda_system_info.dev[d].filter_exception_state_p
          /\ cuda_system_info'.dev[d].filter_exception_state_p

\* C17: device_filter_exception_state(d) is one-shot per invalidation of the
\* device: it reads the exception bitmap only when filter_exception_state_p
\* is clear and then sets it, only a step that invalidates the whole device
\* clears the flag, and right after the read lane_get_exception on any valid
\* lane of an SM that is not in the bitmap returns NONE without a
\* read_lane_exception.
C17_FilterOncePerInvalidation ==
  /\ [](\A d \in Devs : FilterPost(d))
  /\ [][\A d \in Devs : FilterLatch(d)]_vars

\* C17 has happened: the bitmap of a device stopped by an exception has been
\* read once, and a lane of an SM that is not in it has been inspected and has
\* NONE cached, the last operation having made no debug-API call.
C17_Witness ==
  \E d \in Devs, s \in Sms, w \in Warps, l \in Lanes :
    /\ hw[d] = "exception"
    /\ exception_state_reads[d] = <<Hw(d).exception_sms>>
    /\ cuda_system_info.dev[d].filter_exception_state_p
    /\ ~Bit(Hw(d).exception_sms, s)
    /\ cuda_system_info.dev[d].sm[s].wp[w].ln[l].timestamp_p
    /\ cuda_system_info.dev[d].sm[s].wp[w].ln[l].exception_p
    /\ cuda_system_info.dev[d].sm[s].wp[w].ln[l].exception = "NONE"
    /\ api = <<>>

(***************************************************************************)
(*                  Properties of the event processor                      *)
(***************************************************************************)

\* C18: in every state the kernel registry holds at most one record per
\* device and grid id, whether KERNEL_READY events or warp_get_kernel
\* registered the records.
C18_OneKernelPerGrid ==
  \A k1 \in kernels, k2 \in kernels :
    (k1.dev_id = k2.dev_id /\ k1.grid_id = k2.grid_id) => k1 = k2

\* The events of kind kind that carry the thread id ~0U.
InvalidTidEvents(kind) ==
  {Event(kind, d, c, InvalidTid, g) : d \in Devs, c \in ContextIds,
                                      g \in 0 .. 1}

\* Handling left the context lists and stacks, the current context, the
\* kernel registry and the breakpoints as the event found them.
Untouched(e) ==
  /\ e.contexts = contexts
  /\ e.current_context = current_context
  /\ e.kernels = kernels
  /\ e.auto_breakpoints = auto_breakpoints
  /\ e.attach_state = attach_state

ValidTidEvents(kind) ==
  {event \in {[Event(kind, d, c, 1, 1) EXCEPT !.module = m, !.type = type] :
                d \in Devs, c \in ContextIds, m \in 1 .. MaxModules,
                type \in KernelTypes} : Sendable(event)}

\* In the calls cs, a call of first comes before every call of second, and
\* there are calls of both.
CalledBefore(cs, first, second) ==
  /\ \E i \in DOMAIN cs : cs[i][1] = first
  /\ \E j \in DOMAIN cs : cs[j][1] = second
  /\ \A i, j \in DOMAIN cs :
       (cs[i][1] = first /\ cs[j][1] = second) => i < j

\* The auto breakpoints of the context are removed before the context is
\* removed from the list of the device and deleted, and both are done.
CleanedThenDeleted(e, event) ==
  /\ \A b \in e.auto_breakpoints : b.context_id # event.context
  /\ CalledBefore(e.calls, "cuda_cleanup_auto_breakpoints",
                  "contexts_remove_context")
  /\ CalledBefore(e.calls, "contexts_remove_context", "context_delete")
  /\ event.context \notin e.contexts[event.dev].list

\* C21 as stated: a CTX_DESTROY of a context that is the active context of
\* its thread sets the current context to null and removes the auto
\* breakpoints of the context, both before the context is removed from the
\* list of the device and deleted.
C21_Original ==
  \A event \in ValidTidEvents("CTX_DESTROY") :
    LET Destroyed(e) ==
          /\ e.current_context = 0
          /\ current_context # 0 =>
               CalledBefore(e.calls, "set_current_context",
                            "contexts_remove_context")
          /\ CleanedThenDeleted(e, event)
    IN contexts_get_active_context(contexts[event.dev], event.tid)
         = event.context
       => Destroyed(cuda_process_event(Events, event))

\* C21: a CTX_DESTROY of a context that is the active context of its thread
\* sets the current context to null only when the destroyed context is the
\* current one, and leaves it alone otherwise; it removes the auto
\* breakpoints of the context; both happen before the context is removed
\* from the list of the device and deleted; and in no state is the current
\* context a context that is on no device.
C21_DestroyClearsCurrent ==
  /\ \A event \in ValidTidEvents("CTX_DESTROY") :
       LET Destroyed(e) ==
             /\ IF current_context = event.context
                THEN /\ e.current_context = 0
                     /\ CalledBefore(e.calls, "set_current_context",
                                     "contexts_remove_context")
                ELSE /\ e.current_context = current_context
                     /\ \A i \in DOMAIN e.calls :
                          e.calls[i][1] # "set_current_context"
             /\ CleanedThenDeleted(e, event)
       IN contexts_get_active_context(contexts[event.dev], event.tid)
            = event.context
          => Destroyed(cuda_process_event(Events, event))
  /\ current_context # 0 => \E d \in Devs : current_context \in contexts[d].list

\* C21 has happened: the destroyed context was the current one and had an
\* auto breakpoint, and the event has reset the current context, removed
\* the breakpoint and deleted the context.
C21_Witness ==
  /\ \E c \in ContextIds :
       calls = <<<<"set_current_context", 0>>,
                 <<"cuda_cleanup_auto_breakpoints", c>>,
                 <<"cuda_unresolve_breakpoints", c>>,
                 <<"contexts_remove_context", c>>,
                 <<"context_delete", c>>>>
  /\ current_context = 0
  /\ kernels # {}
  /\ auto_breakpoints = {}

\* C22: when no attach is in progress, before any attach has started and
\* after ATTACH_COMPLETE has been processed, a CTX_PUSH of a context of the
\* device makes it the active context of the thread, and a CTX_POP naming
\* the active context of the thread pops the stack of the thread.
C22_PushPopUnlessAttaching ==
  attach_state \in {"NOT_STARTED", "APP_READY"} =>
    \A d \in Devs : \A c \in contexts[d].list :
      LET Pushed(e) == contexts_get_active_context(e.contexts[d], 1) = c
          Popped(e) == e.contexts[d].stacks[1] = Tail(contexts[d].stacks[1])
      IN /\ Len(contexts[d].stacks[1]) < MaxStack =>
              Pushed(cuda_process_event(Events, Event("CTX_PUSH", d, c, 1, 0)))
         /\ contexts_get_active_context(contexts[d], 1) = c =>
              Popped(cuda_process_event(Events, Event("CTX_POP", d, c, 1, 0)))

\* C23: an ELF_IMAGE_LOADED event for a context of the device adds the one
\* module of the event to the module list of that context, makes the context
\* current and then calls the breakpoint resolver for the module; the context
\* lists and stacks and the modules of the other contexts are left alone.
C23_ElfImageLoaded ==
  \A event \in ValidTidEvents("ELF_IMAGE_LOADED") :
    LET Loaded(e) ==
          /\ e.modules[event.context]
               = Append(modules[event.context], event.module)
          /\ \A c \in ContextIds \ {event.context} :
               e.modules[c] = modules[c]
          /\ e.current_context = event.context
          /\ e.calls = <<<<"set_current_context", event.context>>,
                         <<"cuda_resolve_breakpoints", event.module>>>>
          /\ e.contexts = contexts
          /\ e.error = ""
    IN Loaded(cuda_process_event(Events, event))

\* C23 has happened: a second module has been loaded in a context that was
\* not the current one, next to a context with a module of its own.
C23_Witness ==
  \E c \in ContextIds, m \in 1 .. MaxModules :
    /\ calls = <<<<"set_current_context", c>>,
                 <<"cuda_resolve_breakpoints", m>>>>
    /\ current_context = c
    /\ modules[c] = <<m>>
    /\ \E o \in ContextIds \ {c} :
         /\ modules[o] # <<>>
         /\ \E d \in Devs : {c, o} \subseteq contexts[d].list

\* The break-on-launch option of the type of a kernel is set.
BreakOnLaunch(type) ==
  \/ type = "APPLICATION" /\ options.break_on_launch_application
  \/ type = "SYSTEM" /\ options.break_on_launch_system

\* C24: a KERNEL_READY event of a valid thread registers a kernel for the
\* device and grid, and creates an auto breakpoint at the entry of the
\* kernel for the context exactly when the break-on-launch option of the
\* type of the kernel is set; the context lists and stacks are left alone.
C24_KernelReady ==
  \A event \in ValidTidEvents("KERNEL_READY") :
    LET breakpoint == [addr |-> event.grid, context_id |-> event.context]
        Ready(e) ==
          /\ \E k \in e.kernels \ kernels :
               /\ k.dev_id = event.dev /\ k.grid_id = event.grid
               /\ e.kernels = kernels \cup {k}
          /\ IF BreakOnLaunch(event.type)
             THEN /\ e.auto_breakpoints = auto_breakpoints \cup {breakpoint}
                  /\ e.calls = <<<<"kernels_start_kernel", event.grid>>,
                                 <<"cuda_create_auto_breakpoint",
                                   event.context>>>>
             ELSE /\ e.auto_breakpoints = auto_breakpoints
                  /\ e.calls = <<<<"kernels_start_kernel", event.grid>>>>
          /\ e.contexts = contexts
          /\ e.error = ""
    IN Ready(cuda_process_event(Events, event))

\* C24 has happened: a kernel of the system has been registered and has got
\* its breakpoint with break_on_launch_system set and
\* break_on_launch_application clear.
C24_Witness ==
  /\ options.break_on_launch_system /\ ~options.break_on_launch_application
  /\ kernels # {}
  /\ \E c \in ContextIds :
       /\ calls = <<<<"kernels_start_kernel", 1>>,
                    <<"cuda_create_auto_breakpoint", c>>>>
       /\ auto_breakpoints = {[addr |-> 1, context_id |-> c]}

\* The calls cs end with the one post-processing of the breakpoints: they
\* are removed and inserted again, and that after every other call.
PostProcessedOnce(cs) ==
  /\ Len(cs) >= 2
  /\ cs[Len(cs) - 1] = <<"cuda_remove_breakpoints", 0>>
  /\ cs[Len(cs)] = <<"cuda_insert_breakpoints", 0>>
  /\ \A i \in 1 .. Len(cs) - 2 :
       cs[i][1] \notin {"cuda_remove_breakpoints", "cuda_insert_breakpoints"}

\* C25: every cuda_process_events removes and inserts the breakpoints exactly
\* once, after the last event it handles and never between two events, also
\* when the queue is empty and when an event of the queue fails.
C25_PostProcessOnce ==
  LET Drained(r) == PostProcessedOnce(r.state.calls)
  IN Drained(cuda_process_events(Events, queue))

\* What the events change: the context lists and stacks, the current
\* context, the module lists, the kernels, the auto breakpoints and the
\* attach state.
Fields(e) ==
  <<e.contexts, e.current_context, e.modules, e.kernels, e.auto_breakpoints,
    e.attach_state>>

\* What the handlers find before the first event.
EventsAtStart ==
  [contexts |-> [d \in Devs |-> contexts_new], kernels |-> {},
   attach_state |-> "NOT_STARTED", current_context |-> 0,
   auto_breakpoints |-> {}, modules |-> [c \in ContextIds |-> <<>>],
   error |-> "", calls |-> <<>>]

\* C26: cuda_process_events handles the events of the queue in the order of
\* the queue, and whatever the drains the events were consumed in, the
\* events consumed are the first the debug API produced, in that order, and
\* the state is the one that handling them one by one leads to.
C26_DrainsReplay ==
  LET InOrder(r) ==
        /\ r.done \o r.queue = queue
        /\ \A i \in DOMAIN r.done :
             \E k \in DOMAIN r.state.calls :
               /\ r.state.calls[k] = <<"cuda_process_event", i>>
               /\ \A j \in DOMAIN r.state.calls :
                    (r.state.calls[j][1] = "cuda_process_event"
                       /\ r.state.calls[j][2] > i) => k < j
        /\ Fields(r.state) = Fields(Replay(Events, r.done))
  IN /\ InOrder(cuda_process_events(Events, queue))
     /\ consumed \o queue = produced
     /\ Fields(Events) = Fields(Replay(EventsAtStart, consumed))

\* C26 has happened: MaxTrace events have been consumed, the last drain
\* having handled more than one and fewer than all of them, and they have
\* left a context with a module, a kernel and a breakpoint.
C26_Witness ==
  /\ Len(consumed) = MaxTrace
  /\ queue = <<>>
  /\ <<"cuda_process_event", 2>> \in {calls[i] : i \in DOMAIN calls}
  /\ <<"cuda_process_event", 3>> \notin {calls[i] : i \in DOMAIN calls}
  /\ \E d \in Devs : contexts[d].list # {}
  /\ \E c \in ContextIds : modules[c] # <<>>
  /\ kernels # {}
  /\ auto_breakpoints # {}

\* C27: an INTERNAL_ERROR event fails with the error that carries its code,
\* changes nothing, and is the last event its cuda_process_events consumes,
\* the breakpoints being left as they are; a TIMEOUT event changes nothing,
\* raises no error, and the event after it is consumed.
C27_InternalErrorAndTimeout ==
  LET Stopped(r) ==
        \A i \in DOMAIN r.done :
          /\ r.done[i].kind = "INTERNAL_ERROR" =>
               /\ i = Len(r.done)
               /\ r.queue = SubSeq(queue, i + 1, Len(queue))
               /\ r.state.error = InternalError(r.done[i].grid)
               /\ Fields(r.state)
                    = Fields(Replay(Events, SubSeq(r.done, 1, i - 1)))
               /\ r.state.calls[Len(r.state.calls)]
                    = <<"cuda_process_event", i>>
          /\ r.done[i].kind = "TIMEOUT" =>
               /\ i < Len(queue) => i < Len(r.done)
               /\ i = Len(queue) => r.state.error = ""
      Ignored(e) == e = Events
  IN /\ Stopped(cuda_process_events(Events, queue))
     /\ Ignored(cuda_process_event(Events, Event("TIMEOUT", 0, 0, 0, 0)))
     /\ \A errorType \in 1 .. 2 :
          LET Failed(e) == e = Raise(Events, InternalError(errorType))
          IN Failed(cuda_process_event(
                      Events, Event("INTERNAL_ERROR", 0, 0, 0, errorType)))

\* C27 has happened: one cuda_process_events has consumed a TIMEOUT and then
\* an INTERNAL_ERROR, which has failed with its code and left the event
\* after it in the queue.
C27_Witness ==
  /\ Len(consumed) >= 2
  /\ consumed[Len(consumed) - 1].kind = "TIMEOUT"
  /\ consumed[Len(consumed)].kind = "INTERNAL_ERROR"
  /\ calls = <<<<"cuda_process_event", 1>>, <<"cuda_process_event", 2>>>>
  /\ error = InternalError(consumed[Len(consumed)].grid)
  /\ queue # <<>>

\* What the user asked for in a command, and the candidate that answers it:
\* the closest physical one when the command names a device, an SM, a warp
\* or a lane, the closest logical one otherwise.
Requested(command) ==
  cuda_parser_result_to_coords(command, CUDA_INVALID_COORDS, 1)

Candidate(current, command) ==
  LET physical ==
        \E i \in DOMAIN command : command[i].type \in {"dev", "sm", "wp", "ln"}
      processed ==
        cuda_coords_evaluate_current(
          cuda_parser_result_to_coords(
            command, IF current.valid THEN current ELSE CUDA_WILDCARD_COORDS,
            1),
          current)
  IN IF physical THEN cuda_coords_find_valid(processed).CK_CLOSEST_PHYSICAL
     ELSE cuda_coords_find_valid(processed).CK_CLOSEST_LOGICAL

\* C28: cuda_command_switch changes the focus only when the candidate found
\* is valid, equals the request and differs from the current focus, and then
\* the focus is the candidate; when the candidate is invalid, differs from
\* the request ("Request cannot be satisfied") or is the current focus
\* ("unchanged"), the focus is left as it was. The candidate is the closest
\* physical one if the command names a device, an SM, a warp or a lane, the
\* closest logical one otherwise.
C28_SwitchFocus ==
  \A command \in Commands :
    LET Holds(r, candidate) ==
          LET satisfied == cuda_coords_equal(Requested(command), candidate)
              same == focus.valid /\ candidate = focus
          IN /\ (candidate.valid /\ satisfied /\ ~same)
                  => r.focus = candidate /\ r.focus # focus
             /\ ~candidate.valid
                  => r.focus = focus /\ r.message = SwitchInvalid
             /\ (candidate.valid /\ ~satisfied)
                  => r.focus = focus /\ r.message = SwitchUnsatisfied
             /\ (candidate.valid /\ satisfied /\ same)
                  => r.focus = focus /\ r.message = SwitchUnchanged
    IN Holds(cuda_command_switch(focus, command), Candidate(focus, command))

\* A switch has changed the focus, and from the focus it set a command that
\* names only logical coordinates changes it again while another cannot be
\* satisfied.
C28_Witness ==
  /\ focus.valid
  /\ calls = <<<<"cuda_command_switch", "focus">>>>
  /\ \E command \in Commands :
       /\ \A i \in DOMAIN command : command[i].type \in {"kernelId", "blockIdx", "threadIdx"}
       /\ cuda_command_switch(focus, command).focus # focus
       /\ Candidate(focus, command)
            # cuda_command_switch_always_physical(focus, command).focus
  /\ \E command \in Commands :
       cuda_command_switch(focus, command).message = SwitchUnsatisfied

\* The points of a row: from its start to its end by the successor, which
\* is increment_thread for a row of threads and increment_block for a row
\* of blocks, at most as many as there are threads.
RECURSIVE Expand(_, _, _)
Expand(c, end, fuel) ==
  LET next == IF c.threadIdx = NoIdx
              THEN cuda_coords_increment_block(
                     c, kernel_get_grid_dim(c.kernelId))
              ELSE cuda_coords_increment_thread(
                     c, kernel_get_grid_dim(c.kernelId),
                     kernel_get_block_dim(c.kernelId))
  IN IF c = end \/ fuel = 0 THEN <<c>>
     ELSE <<c>> \o Expand(next, end, fuel - 1)

RowPoints(row) ==
  LET command == IF "start_thread_idx" \in DOMAIN row THEN "threads"
                 ELSE "blocks"
      At(block, thread) ==
        [kernelId |-> row.kernel, blockIdx |-> block, threadIdx |-> thread]
  IN IF command = "threads"
     THEN Expand(At(row.start_block_idx, row.start_thread_idx),
                 At(row.end_block_idx, row.end_thread_idx),
                 Len(LogicalOrder))
     ELSE Expand(At(row.start_block_idx, NoIdx), At(row.end_block_idx, NoIdx),
                 Len(LogicalOrder))

\* How many times each (blockIdx, threadIdx) is among the points.
Pairs(points) ==
  LET pair(c) == <<c.blockIdx, c.threadIdx>>
  IN [p \in {pair(points[i]) : i \in DOMAIN points} |->
        Cardinality({i \in DOMAIN points : pair(points[i]) = p})]

RECURSIVE Flatten(_)
Flatten(seqs) ==
  IF seqs = <<>> THEN <<>> ELSE Head(seqs) \o Flatten(Tail(seqs))

RECURSIVE SumCounts(_)
SumCounts(rs) ==
  IF rs = <<>> THEN 0 ELSE Head(rs).count + SumCounts(Tail(rs))

\* The rows cover the points of the iterator as the rows built without
\* coalescing do.
Covers(rs, iter, uncoalesced) ==
  LET Holds(expanded) ==
        /\ SumCounts(rs) = Len(iter)
        /\ \A r \in DOMAIN rs : rs[r].count = Len(expanded[r])
        /\ \A i \in DOMAIN iter :
             Cardinality({r \in DOMAIN rs :
                            \E j \in DOMAIN expanded[r] :
                              expanded[r][j] = iter[i]}) = 1
        /\ Len(uncoalesced) = Len(iter)
        /\ \A i \in DOMAIN uncoalesced :
             uncoalesced[i].count = 1 /\ RowPoints(uncoalesced[i]) = <<iter[i]>>
        /\ Pairs(Flatten(expanded))
             = Pairs(Flatten([i \in DOMAIN uncoalesced |->
                                RowPoints(uncoalesced[i])]))
  IN Holds([r \in DOMAIN rs |-> RowPoints(rs[r])])

\* C29: with coalescing set, the rows of 'info cuda threads' and of 'info
\* cuda blocks' cover the points of the iterator: each point is in one row
\* only, the counts of the rows add up to the number of points, and the rows
\* expanded from start to end by increment_thread, or increment_block, give
\* the (blockIdx, threadIdx) of the rows built without coalescing, each as
\* many times.
C29_CoalescedRowsCover ==
  (rows # <<>> /\ options.coalescing) =>
    IF rows.command = "threads"
    THEN Covers(rows.rows, cuda_iterator_create("THREADS", rows.filter),
                cuda_info_threads_build(rows.filter, FALSE))
    ELSE \A uninitialised \in BOOLEAN :
           Covers(rows.rows, cuda_iterator_create("BLOCKS", rows.filter),
                  cuda_info_blocks_build(rows.filter, FALSE, uninitialised))

\* 'info cuda threads' has built, with coalescing set, fewer rows than there
\* are points, one of them running from a block into the next, after a row
\* that ends where a thread is missing.
C29_Witness ==
  /\ rows # <<>> /\ options.coalescing
  /\ rows.command = "threads"
  /\ Len(rows.rows) >= 2
  /\ \E r \in DOMAIN rows.rows :
       /\ r > 1
       /\ rows.rows[r].count >= 3
       /\ rows.rows[r].start_block_idx # rows.rows[r].end_block_idx
       /\ rows.rows[r - 1].pc = rows.rows[r].pc
       /\ rows.rows[r - 1].kernel = rows.rows[r].kernel

\* 'info cuda blocks' has built, with coalescing set, a row of several
\* blocks and another row.
C29_WitnessBlocks ==
  /\ rows # <<>> /\ options.coalescing
  /\ rows.command = "blocks"
  /\ Len(rows.rows) >= 2
  /\ \E r \in DOMAIN rows.rows : rows.rows[r].count >= 2

\* C30: while blocked is set, from cuda_notification_block to the next
\* cuda_notification_accept, no notify signals a host thread, whether its
\* payload has timeout set or not and whatever sent and received are.
C30_NoSignalWhileBlocked ==
  [][(NotifyStep /\ cuda_notification_info.blocked)
       => (~last'.send /\ last'.signal = 0)]_vars

\* A notify whose payload has no timeout set signals no host thread while
\* blocked is set, and one with timeout set signals none unless a
\* notification was sent and is not received yet.
BlockedNotifySignalsOnResendOnly ==
  [][(NotifyStep /\ cuda_notification_info.blocked)
       => \/ ~last'.send /\ last'.signal = 0
          \/ /\ call.cb.timeout
             /\ cuda_notification_info.sent
             /\ ~cuda_notification_info.received
             /\ last'.branch = "resend"]_vars

\* C31: at most one payload is buffered. A notify without timeout that
\* arrives while pending_send is set changes no field of the record; a
\* payload is buffered only by the notify that sets pending_send, it stays
\* as it is while pending_send is set, and it is the payload the next accept
\* sends.
C31_OnePayloadBuffered ==
  [][/\ (NotifyStep /\ ~call.cb.timeout /\ cuda_notification_info.pending_send)
          => cuda_notification_info' = cuda_notification_info
     /\ (~cuda_notification_info.pending_send
           /\ cuda_notification_info'.pending_send)
          => /\ NotifyStep
             /\ cuda_notification_info'.pending_send_data = call.cb
     /\ (cuda_notification_info.pending_send
           /\ cuda_notification_info'.pending_send)
          => cuda_notification_info'.pending_send_data
               = cuda_notification_info.pending_send_data
     /\ (AcceptStep /\ cuda_notification_info.pending_send)
          => /\ last'.send
             /\ last'.data = cuda_notification_info.pending_send_data
             /\ ~cuda_notification_info'.pending_send]_vars

\* A notify without timeout has arrived while another payload was buffered
\* and was ignored, the payloads differing.
C31_Witness ==
  /\ last.op = "notify" /\ last.branch = "ignored"
  /\ ~last.data.timeout
  /\ cuda_notification_info.pending_send
  /\ cuda_notification_info.pending_send_data # last.data

\* C32: run_info_cuda_command leaves the current focus and the current
\* context as they were before the command, and nothing saved, for every
\* info sub-command and however it ends: by returning, by returning early on
\* an empty list, or by an error raised inside it, also after
\* info_cuda_kernels_print_frame_args has switched the focus.
C32_InfoKeepsFocus ==
  \A command \in InfoCommands, fail \in 0 .. MaxFail :
    LET Kept(r) ==
          /\ r.focus = focus
          /\ r.current_context = current_context
          /\ r.saved = <<>>
    IN Kept(run_info_cuda_command(Focus, command, fail))

\* 'info cuda kernels' has switched the focus and the context to a lane of
\* another kernel, has failed printing its arguments and has left the focus
\* and the current context of before, which are set.
C32_Witness ==
  /\ calls # <<>>
  /\ calls[1] = <<"run_info_cuda_command", "kernels">>
  /\ error = "print_args_frame"
  /\ focus.valid /\ current_context # 0
  /\ \E i, j \in DOMAIN calls :
       /\ calls[i][1] = "switch_to_cuda_thread"
       /\ calls[i][2] # Position(focus)
       /\ calls[j] = <<"kernel_load_elf_images",
                       CHOOSE k \in InfoKernelIds :
                         kernel_get_context(k) # current_context>>

(***************************************************************************)
(*                     Properties of the cached getters                    *)
(***************************************************************************)

\* The debug-API reads whose answer the state mirror caches until the SM or
\* the warp is invalidated.
DynamicReads ==
  {Api(n, <<d, s>>) :
     n \in {"read_valid_warps", "read_broken_warps"}, d \in Devs, s \in Sms}
  \cup
  {Api(n, <<d, s, w>>) :
     n \in {"read_grid_id", "read_block_idx", "read_valid_lanes",
            "read_active_lanes"},
     d \in Devs, s \in Sms, w \in Warps}
  \cup
  {Api(n, <<d, s, w, l>>) :
     n \in {"read_thread_idx", "read_lane_exception"},
     d \in Devs, s \in Sms, w \in Warps, l \in Lanes}

\* The debug-API reads of the static descriptors and of the device count.
StaticReads ==
  {Api(n, <<d>>) :
     n \in {"get_num_sms", "get_num_warps", "get_num_lanes",
            "get_num_registers", "get_device_type", "get_sm_type"},
     d \in Devs}
  \cup {Api("get_num_devices", <<>>)}

\* The names of the debug-API calls whose answer is cached.
CachedCalls == {c.call : c \in DynamicReads \cup StaticReads}

\* The present flag of the value read c is set in the mirror sys.
Present(sys, c) ==
  LET dev == sys.dev[c.at[1]]
      sm  == dev.sm[c.at[2]]
      wp  == sm.wp[c.at[3]]
      ln  == wp.ln[c.at[4]]
  IN CASE c.call = "read_valid_warps"    -> sm.valid_warps_mask_p
       [] c.call = "read_broken_warps"   -> sm.broken_warps_mask_p
       [] c.call = "read_grid_id"        -> wp.grid_id_p
       [] c.call = "read_block_idx"      -> wp.block_idx_p
       [] c.call = "read_valid_lanes"    -> wp.valid_lanes_mask_p
       [] c.call = "read_active_lanes"   -> wp.active_lanes_mask_p
       [] c.call = "read_thread_idx"     -> ln.thread_idx_p
       [] c.call = "read_lane_exception" -> ln.exception_p
       [] c.call = "get_num_sms"         -> dev.num_sms_p
       [] c.call = "get_num_warps"       -> dev.num_warps_p
       [] c.call = "get_num_lanes"       -> dev.num_lanes_p
       [] c.call = "get_num_registers"   -> dev.num_registers_p
       [] c.call = "get_device_type"     -> dev.dev_type_p
       [] c.call = "get_sm_type"         -> dev.sm_type_p
       [] c.call = "get_num_devices"     -> sys.num_devices_p

\* The operation that produced machine m read each cached value at most once,
\* read no value whose present flag was set, and left the flag of each value
\* it read set.
Silent(m) ==
  \A i \in DOMAIN m.api :
    m.api[i].call \in CachedCalls =>
      /\ ~Present(cuda_system_info, m.api[i])
      /\ Present(m.sys, m.api[i])
      /\ \A j \in DOMAIN m.api : m.api[j] = m.api[i] => j = i

\* A getter called a second time right after its first call, which produced
\* machine first, makes no debug-API call more.
Quiet(first, second) == Silent(first) /\ second.api = first.api

\* Every getter, called in the present state at any coordinate of the device
\* in focus, reads the debug API only for values whose flag is not set, and
\* called again reads nothing.
GettersHit ==
  /\ LET Once(r) == Quiet(r, cuda_system_get_num_devices(r))
     IN Once(cuda_system_get_num_devices(Machine))
  /\ \A d \in {focus.dev} :
       /\ LET Once(r) == Quiet(r, device_get_device_type(r, d))
          IN Once(device_get_device_type(Machine, d))
       /\ LET Once(r) == Quiet(r, device_get_sm_type(r, d))
          IN Once(device_get_sm_type(Machine, d))
       /\ LET Once(r) == Quiet(r, device_get_num_sms(r, d))
          IN Once(device_get_num_sms(Machine, d))
       /\ LET Once(r) == Quiet(r, device_get_num_warps(r, d))
          IN Once(device_get_num_warps(Machine, d))
       /\ LET Once(r) == Quiet(r, device_get_num_lanes(r, d))
          IN Once(device_get_num_lanes(Machine, d))
       /\ LET Once(r) == Quiet(r, device_get_num_registers(r, d))
          IN Once(device_get_num_registers(Machine, d))
       /\ LET Once(r) == Quiet(r, cuda_info_devices_build_device(r, d))
          IN Once(cuda_info_devices_build_device(Machine, d))
  /\ \A d \in {focus.dev}, s \in Sms :
       /\ LET Once(r) == Quiet(r, sm_get_valid_warps_mask(r, d, s))
          IN Once(sm_get_valid_warps_mask(Machine, d, s))
       /\ LET Once(r) == Quiet(r, sm_get_broken_warps_mask(r, d, s))
          IN Once(sm_get_broken_warps_mask(Machine, d, s))
  /\ \A d \in {focus.dev}, s \in Sms, w \in Warps :
       /\ LET Once(r) == Quiet(r, warp_get_grid_id(r, d, s, w))
          IN Once(warp_get_grid_id(Machine, d, s, w))
       /\ LET Once(r) == Quiet(r, warp_get_block_idx(r, d, s, w))
          IN Once(warp_get_block_idx(Machine, d, s, w))
       /\ LET Once(r) == Quiet(r, warp_get_valid_lanes_mask(r, d, s, w))
          IN Once(warp_get_valid_lanes_mask(Machine, d, s, w))
       /\ LET Once(r) == Quiet(r, warp_get_active_lanes_mask(r, d, s, w))
          IN Once(warp_get_active_lanes_mask(Machine, d, s, w))
  /\ \A d \in {focus.dev}, s \in Sms, w \in Warps, l \in Lanes :
       AssertValidLane(Machine, d, s, w, l).ret =>
         /\ LET Once(r) == Quiet(r, lane_get_thread_idx(r, d, s, w, l))
            IN Once(lane_get_thread_idx(Machine, d, s, w, l))
         /\ LET Once(r) == Quiet(r, lane_get_exception(r, d, s, w, l))
            IN Once(lane_get_exception(Machine, d, s, w, l))

\* The warp of value c is invalidated in the mirror sys: the flags of the
\* masks of its SM are clear, and so is every flag of the warp and of its
\* lanes that a getter tests.
Invalidated(sys, c) ==
  LET sm == sys.dev[c.at[1]].sm[c.at[2]]
  IN /\ ~sm.valid_warps_mask_p /\ ~sm.broken_warps_mask_p
     /\ Len(c.at) > 2 =>
          LET wp == sm.wp[c.at[3]]
          IN /\ ~wp.grid_id_p /\ ~wp.block_idx_p
             /\ ~wp.valid_lanes_mask_p /\ ~wp.active_lanes_mask_p
             /\ \A l \in Lanes : /\ ~wp.ln[l].thread_idx_p
                                 /\ ~wp.ln[l].exception_p

\* A step clears the flag of a cached value only by invalidating its warp or
\* its SM, and never clears the flag of a static descriptor or of the device
\* count.
FlagsKept ==
  \/ cuda_system_info' = cuda_system_info
  \/ /\ \A c \in DynamicReads :
          Present(cuda_system_info, c) /\ ~Present(cuda_system_info', c)
            => Invalidated(cuda_system_info', c)
     /\ \A c \in StaticReads :
          Present(cuda_system_info, c) => Present(cuda_system_info', c)

Named(filter_string) ==
  {filter_string[i].type : i \in DOMAIN filter_string}

\* The value the last request of the filter string for field f gives.
Given(filter_string, f) ==
  LET last_i == CHOOSE i \in DOMAIN filter_string :
                  /\ filter_string[i].type = f
                  /\ \A j \in DOMAIN filter_string :
                       filter_string[j].type = f => j <= i
  IN filter_string[last_i].value

\* C34, as stated: every field the filter string of an info sub-command does
\* not name is CUDA_WILDCARD in the filter built, whether the filter string
\* is empty or names another field.
C34_UnspecifiedIsWildcard ==
  rows # <<>> =>
    \A f \in RequestTypes \ Named(rows.filter_string) :
      rows.filter[f] = CUDA_WILDCARD

\* C34, amended: a filter string that names a field leaves every field it
\* does not name CUDA_WILDCARD; with an empty filter string the filter is the
\* default filter of the sub-command, whose CUDA_CURRENT fields (dev for
\* sms; dev, sm for warps; dev, sm, wp for lanes; kernelId for blocks and
\* threads) take the value of the focus, CUDA_WILDCARD when there is no
\* focus; no field of the filter built is CUDA_CURRENT.
C34_FilterDefaults ==
  rows # <<>> =>
    /\ \A f \in RequestTypes :
         /\ rows.filter[f] # CUDA_CURRENT
         /\ rows.filter[f] =
              IF rows.filter_string # <<>>
              THEN (IF f \in Named(rows.filter_string)
                    THEN Given(rows.filter_string, f) ELSE CUDA_WILDCARD)
              ELSE IF default_filter(rows.command)[f] = CUDA_CURRENT
                      /\ focus.valid
                   THEN focus[f]
                   ELSE CUDA_WILDCARD

\* 'info cuda sms' was given no filter string with the focus on a lane: the
\* filter built names the device of the focus.
C34_Witness ==
  /\ rows # <<>>
  /\ rows.command = "sms" /\ rows.filter_string = <<>>
  /\ focus.valid
  /\ rows.filter.dev = focus.dev /\ rows.filter.sm = CUDA_WILDCARD

(***************************************************************************)
(*                       Properties of warp_get_kernel                     *)
(***************************************************************************)

\* The kernel records of ks for grid g of device d.
Registered(ks, d, g) == {k \in ks : k.dev_id = d /\ k.grid_id = g}

\* The calls get_grid_info (d, g) among the debug-API calls m_api.
GridInfoCalls(m_api, d, g) ==
  SelectSeq(m_api, LAMBDA c : c = Api("get_grid_info", <<d, g>>))

ValidWarps ==
  {c \in [dev : Devs, sm : Sms, wp : Warps] :
     Bit(Hw(c.dev).valid_warps[c.sm], c.wp)}

\* Some valid warp is broken and carries a timestamp not older than clock.
BrokenSince(clock) ==
  \E c \in ValidWarps :
    LET wp == cuda_system_info.dev[c.dev].sm[c.sm].wp[c.wp]
    IN /\ Bit(Hw(c.dev).broken_warps[c.sm], c.wp)
       /\ wp.timestamp_p
       /\ wp.timestamp >= clock

\* Every valid warp carries a timestamp.
AllStamped ==
  \A c \in ValidWarps :
    cuda_system_info.dev[c.dev].sm[c.sm].wp[c.wp].timestamp_p

WarpCoords == [dev : Devs, sm : Sms, wp : Warps]
LaneCoords == [dev : Devs, sm : Sms, wp : Warps, ln : Lanes]

\* The state of warp c and of lane c in mirror sys.
WarpAt(sys, c) == sys.dev[c.dev].sm[c.sm].wp[c.wp]
LaneAt(sys, c) == sys.dev[c.dev].sm[c.sm].wp[c.wp].ln[c.ln]

\* A warp whose valid-lanes mask is cached carries a timestamp, and a read of
\* the valid-lanes mask of any warp, or a lane_is_valid on any lane, leaves
\* the warp, or the lane, with a timestamp.
StampedOnRead ==
  /\ \A c \in WarpCoords :
       /\ WarpAt(cuda_system_info, c).valid_lanes_mask_p
            => WarpAt(cuda_system_info, c).timestamp_p
       /\ LET Read(r) == /\ WarpAt(r.sys, c).valid_lanes_mask_p
                         /\ WarpAt(r.sys, c).timestamp_p
          IN Read(warp_get_valid_lanes_mask(Machine, c.dev, c.sm, c.wp))
  /\ \A c \in LaneCoords :
       LET Asked(r) == /\ LaneAt(r.sys, c).timestamp_p
                       /\ WarpAt(r.sys, c).timestamp_p
       IN Asked(lane_is_valid(Machine, c.dev, c.sm, c.wp, c.ln))

\* A step keeps the timestamp of a warp, or of a lane, that carries one
\* before and after it, stamps with the tick of the clock, stamps a warp only
\* when it caches its valid-lanes mask, and takes the timestamp of a warp away
\* only together with its valid-lanes mask and the timestamps of its lanes.
StampsKept ==
  \/ cuda_system_info' = cuda_system_info
  \/ /\ \A c \in WarpCoords :
          LET before == WarpAt(cuda_system_info, c)
              after  == WarpAt(cuda_system_info', c)
          IN /\ before.timestamp_p /\ after.timestamp_p
                  => after.timestamp = before.timestamp
             /\ ~before.timestamp_p /\ after.timestamp_p
                  => /\ after.timestamp = cuda_clock
                     /\ after.valid_lanes_mask_p
             /\ before.timestamp_p /\ ~after.timestamp_p
                  => /\ ~after.valid_lanes_mask_p
                     /\ \A l \in Lanes : ~after.ln[l].timestamp_p
     /\ \A c \in LaneCoords :
          LET before == LaneAt(cuda_system_info, c)
              after  == LaneAt(cuda_system_info', c)
          IN /\ before.timestamp_p /\ after.timestamp_p
                  => after.timestamp = before.timestamp
             /\ ~before.timestamp_p /\ after.timestamp_p
                  => after.timestamp = cuda_clock

\* C37: in every reachable state valid_lanes_mask_p implies timestamp_p for
\* every warp; the first read of a warp's valid-lanes mask stamps it with the
\* clock and the timestamp stays as it is until the warp is invalidated;
\* likewise the first lane_is_valid stamps the lane, whose timestamp stays as
\* it is until the lane is invalidated.
C37_TimestampsFixed == [](StampedOnRead) /\ [][StampsKept]_vars

\* The clock has ticked since the warp in focus and its lane were stamped,
\* both still carry the timestamp of the earlier tick, and the other warp of
\* the SM has been stamped since.
C37_Witness ==
  LET wp == WarpAt(cuda_system_info, focus)
  IN /\ cuda_clock = MaxClock
     /\ wp.valid_lanes_mask_p /\ wp.timestamp_p /\ wp.timestamp = 0
     /\ wp.ln[focus.ln].timestamp_p /\ wp.ln[focus.ln].timestamp = 0
     /\ \E w \in Warps :
          /\ cuda_system_info.dev[focus.dev].sm[focus.sm].wp[w].timestamp_p
          /\ cuda_system_info.dev[focus.dev].sm[focus.sm].wp[w].timestamp
               = MaxClock


\* Bit d of the suspended-devices mask is set exactly when dev[d].suspended
\* is, and the mask has no bit of a device that does not exist.
MaskMirrorsSuspended ==
  /\ suspended_devices_mask \in 0 .. AllBits(NumDevices)
  /\ \A d \in Devs :
       Bit(suspended_devices_mask, d) <=> cuda_system_info.dev[d].suspended

\* A step that calls resume_device (d) starts with device d suspended, by a
\* suspend_device (d) since its last resume: dev[d].suspended is set only by
\* a step that calls suspend_device (d), and cleared only by a step that
\* calls resume_device (d) once or zeroes the mirror.
ResumeFollowsSuspend ==
  \/ <<api, cuda_system_info>>' = <<api, cuda_system_info>>
  \/ \A d \in Devs :
       LET before == cuda_system_info.dev[d].suspended
           after  == cuda_system_info'.dev[d].suspended
           resumes ==
             SelectSeq(api', LAMBDA c : c = Api("resume_device", <<d>>))
       IN /\ Len(resumes) <= 1
          /\ resumes # <<>> => before /\ ~after
          /\ ~before /\ after => api' = <<Api("suspend_device", <<d>>)>>
          /\ before /\ ~after
               => \/ resumes # <<>>
                  \/ cuda_system_info' = cuda_system_initialize

\* C38: in every reachable state bit d of the suspended-devices mask is set
\* if and only if dev[d].suspended is true, and resume_device (d) is only
\* invoked for a device on which suspend_device (d) has been invoked since
\* its last resume.
C38_MaskAndResume == [](MaskMirrorsSuspended) /\ [][ResumeFollowsSuspend]_vars

\* Two devices were suspended and device_resume has resumed one of them: its
\* bit is clear and the bit of the other is the whole mask.
C38_Witness ==
  \E d \in Devs : \E e \in Devs \ {d} :
    /\ api # <<>>
    /\ api[Len(api)] = Api("resume_device", <<d>>)
    /\ suspended_devices_mask = 2 ^ e
    /\ cuda_system_info.dev[e].suspended
    /\ ~cuda_system_info.dev[d].suspended


\* C39: after CTX_DESTROY (d, c, t) has been processed, for a context c of
\* device d and any host thread t, the deleted context is on the stack of no
\* host thread of the device, and is the active context of none.
C39_DestroyedOnNoStack ==
  \A d \in Devs : \A c \in contexts[d].list : \A t \in Tids :
    LET Gone(e) ==
          \A other \in Tids :
            /\ contexts_get_active_context(e.contexts[d], other) # c
            /\ \A i \in DOMAIN e.contexts[d].stacks[other] :
                 e.contexts[d].stacks[other][i] # c
    IN Gone(cuda_process_event(Events, Event("CTX_DESTROY", d, c, t, 0)))


\* C40: whenever kernel_p of a warp is set, the cached handle is that of a
\* kernel registered for the device and the grid of the warp; it is null
\* only when no kernel is registered for them.
C40_CachedKernelRegistered ==
  \A d \in Devs, s \in Sms, w \in Warps :
    LET wp == cuda_system_info.dev[d].sm[s].wp[w]
    IN wp.kernel_p =>
         IF Registered(kernels, d, wp.grid_id) = {}
         THEN wp.kernel = 0
         ELSE wp.kernel \in {k.id : k \in Registered(kernels, d, wp.grid_id)}

====
